---- MODULE Spec2Model ----
(***************************************************************************)
(* QRFS: a block filesystem whose blocks are the files of a folder.        *)
(* The model covers mkfs (layout + fresh structures), mount, the mutating  *)
(* FUSE handlers create / write / mkdir / rmdir / rename, the read         *)
(* handler, the block allocator and the RwLock that guards QrfsInner.      *)
(*                                                                         *)
(* Handlers that touch the disk are split at every disk write, so that    *)
(* the on-disk states an interruption can expose, and the interleavings   *)
(* the lock allows, are states of the model.  A handler is "completed"    *)
(* when its process is back at pc = "idle".                               *)
(*                                                                         *)
(* Not modelled: permission bits, uid/gid and the three timestamps of an   *)
(* inode (no claim reads them), and the byte encoding of the superblock    *)
(* and inode records (the disk is kept as decoded regions).                *)
(***************************************************************************)
EXTENDS Integers, Sequences, FiniteSets, TLC

\* ------------------------------------------------------------------ bounds
\* Number of block files in the folder handed to mkfs.
TotalBlocks == 5
\* Bytes per block, scaled down from QRFS_BLOCK_SIZE = 1024.
BlockSize == 6
\* Concurrent request threads.
NProcs == 2
\* Largest number of block files mkfs is run on.
MkfsMaxBlocks == 50
\* ------------------------------------------------------- program constants
ROOT_INO == 1
\* mem::size_of::<InodeDisk>(), in the scaled bytes of BlockSize (the code's
\* 112 of 1024: a block holds BlockSize div InodeSize inode records).
InodeSize == 2
QRFS_MAGIC == 1364346451
QRFS_VERSION == 1
NDirect == 12

\* Input domains.
Procs == 1..NProcs
Names == {"a", "b"}
\* Directories a request may name as parent: the root and the first inode
\* number handed out.
Parents == {ROOT_INO, 2}
\* write() requests: <<offset, length>>; a payload of one byte more than a
\* block at offset 0, one byte at offset 1, and a negative offset.  The
\* payload of length n is the bytes 1, 2, .., n.
WriteShapes == {<<0, BlockSize + 1>>, <<1, 1>>, <<0 - 1, 1>>}
Payload(n) == [i \in 1..n |-> i]
\* read() requests: <<offset, size>>.
ReadShapes == {<<0, BlockSize + 1>>, <<1, 1>>, <<0 - 1, 1>>}

Min(a, b) == IF a < b THEN a ELSE b
Max(a, b) == IF a > b THEN a ELSE b

\* Rust's Result<T>.
Ok(v) == [ok |-> TRUE, val |-> v]
Err == [ok |-> FALSE, val |-> 0]

Zeros(n) == [i \in 1..n |-> 0]
NoDirect == [i \in 1..NDirect |-> 0]

\* ------------------------------------------------------------------- mkfs

\* build_layout with the bitmap placed one block after the inode table's
\* first block.
build_layout_one_table_block(total_blocks, block_size, inode_size) ==
    IF total_blocks < 3 THEN Err
    ELSE IF inode_size = 0 \/ inode_size > block_size THEN Err
    ELSE
      LET inodes_per_block == block_size \div inode_size
          tenth == Max(total_blocks \div 10, 1)
          inode_table_blocks == IF tenth > total_blocks - 2 THEN 1 ELSE tenth
          max_inodes == inodes_per_block * inode_table_blocks
          bitmap_bytes == (total_blocks + 7) \div 8
          free_bitmap_blocks == (bitmap_bytes + block_size - 1) \div block_size
          inode_table_start == 1
          free_bitmap_start == inode_table_start + 1
          data_blocks_start == free_bitmap_start + free_bitmap_blocks
      IN  IF data_blocks_start >= total_blocks THEN Err
          ELSE Ok([total_blocks |-> total_blocks,
                   inode_table_start |-> inode_table_start,
                   inode_table_blocks |-> inode_table_blocks,
                   free_bitmap_start |-> free_bitmap_start,
                   free_bitmap_blocks |-> free_bitmap_blocks,
                   data_blocks_start |-> data_blocks_start,
                   max_inodes |-> max_inodes])

\* build_layout without the check for an empty data region.
build_layout_no_data_check(total_blocks, block_size, inode_size) ==
    IF total_blocks < 3 THEN Err
    ELSE IF inode_size = 0 \/ inode_size > block_size THEN Err
    ELSE
      LET inodes_per_block == block_size \div inode_size
          tenth == Max(total_blocks \div 10, 1)
          inode_table_blocks == IF tenth > total_blocks - 2 THEN 1 ELSE tenth
          max_inodes == inodes_per_block * inode_table_blocks
          bitmap_bytes == (total_blocks + 7) \div 8
          free_bitmap_blocks == (bitmap_bytes + block_size - 1) \div block_size
          inode_table_start == 1
          free_bitmap_start == inode_table_start + inode_table_blocks
          data_blocks_start == free_bitmap_start + free_bitmap_blocks
      IN  Ok([total_blocks |-> total_blocks,
              inode_table_start |-> inode_table_start,
              inode_table_blocks |-> inode_table_blocks,
              free_bitmap_start |-> free_bitmap_start,
              free_bitmap_blocks |-> free_bitmap_blocks,
              data_blocks_start |-> data_blocks_start,
              max_inodes |-> max_inodes])

\* build_layout: region boundaries for total_blocks blocks.
build_layout(total_blocks, block_size, inode_size) ==
    IF total_blocks < 3 THEN Err
    ELSE IF inode_size = 0 \/ inode_size > block_size THEN Err
    ELSE
      LET inodes_per_block == block_size \div inode_size
          tenth == Max(total_blocks \div 10, 1)
          inode_table_blocks == IF tenth > total_blocks - 2 THEN 1 ELSE tenth
          max_inodes == inodes_per_block * inode_table_blocks
          bitmap_bytes == (total_blocks + 7) \div 8
          free_bitmap_blocks == (bitmap_bytes + block_size - 1) \div block_size
          inode_table_start == 1
          free_bitmap_start == inode_table_start + inode_table_blocks
          data_blocks_start == free_bitmap_start + free_bitmap_blocks
      IN  IF data_blocks_start >= total_blocks THEN Err
          ELSE Ok([total_blocks |-> total_blocks,
                   inode_table_start |-> inode_table_start,
                   inode_table_blocks |-> inode_table_blocks,
                   free_bitmap_start |-> free_bitmap_start,
                   free_bitmap_blocks |-> free_bitmap_blocks,
                   data_blocks_start |-> data_blocks_start,
                   max_inodes |-> max_inodes])

\* The all-zero InodeDisk record of a free slot.
FreeInodeDisk ==
    [id |-> 0, file_type |-> 0, size |-> 0, nlink |-> 0,
     direct_blocks |-> NoDirect, indirect_block |-> 0,
     double_indirect_block |-> 0]

\* InodeDisk as create() and the fallback of write() build it.
NewFileInodeDisk(ino) ==
    [id |-> ino, file_type |-> 1, size |-> 0, nlink |-> 1,
     direct_blocks |-> NoDirect, indirect_block |-> 0,
     double_indirect_block |-> 0]

\* Bit block_index of a byte-vector bitmap (bit i of byte i div 8).
bitmap_test(bitmap, block_index) ==
    LET byte == block_index \div 8
        bit == block_index % 8
    IN  IF byte >= Len(bitmap) THEN TRUE
        ELSE (bitmap[byte + 1] \div (2 ^ bit)) % 2 = 1

bitmap_set(bitmap, block_index, used) ==
    LET byte == block_index \div 8
        bit == block_index % 8
        isset == (bitmap[byte + 1] \div (2 ^ bit)) % 2 = 1
    IN  IF byte >= Len(bitmap) THEN bitmap
        ELSE IF used
             THEN [bitmap EXCEPT ![byte + 1] =
                       IF isset THEN @ ELSE @ + 2 ^ bit]
             ELSE [bitmap EXCEPT ![byte + 1] =
                       IF isset THEN @ - 2 ^ bit ELSE @]

\* The loop of init_fresh_fs that marks blocks 0 .. n-1 used.
RECURSIVE MarkUsed(_, _)
MarkUsed(bitmap, n) ==
    IF n = 0 THEN bitmap
    ELSE bitmap_set(MarkUsed(bitmap, n - 1), n - 1, TRUE)

\* init_fresh_fs that does not count the root inode as used.
init_fresh_fs_root_free(layout, block_size) ==
    [superblock |->
        [magic |-> QRFS_MAGIC, version |-> QRFS_VERSION,
         block_size |-> block_size,
         total_blocks |-> layout.total_blocks,
         inode_table_start |-> layout.inode_table_start,
         inode_table_blocks |-> layout.inode_table_blocks,
         free_bitmap_start |-> layout.free_bitmap_start,
         free_bitmap_blocks |-> layout.free_bitmap_blocks,
         data_blocks_start |-> layout.data_blocks_start,
         max_inodes |-> layout.max_inodes,
         root_inode |-> 1,
         free_blocks |-> layout.total_blocks - layout.data_blocks_start,
         free_inodes |-> layout.max_inodes],
     inodes |->
        [i \in 1..layout.max_inodes |->
            IF i = 1
            THEN [id |-> 1, file_type |-> 2, size |-> 0, nlink |-> 2,
                  direct_blocks |-> NoDirect, indirect_block |-> 0,
                  double_indirect_block |-> 0]
            ELSE FreeInodeDisk],
     bitmap |->
        MarkUsed(Zeros((layout.total_blocks + 7) \div 8),
                 layout.data_blocks_start)]

\* init_fresh_fs: superblock, inode vector and bitmap of an empty filesystem.
init_fresh_fs(layout, block_size) ==
    [superblock |->
        [magic |-> QRFS_MAGIC, version |-> QRFS_VERSION,
         block_size |-> block_size,
         total_blocks |-> layout.total_blocks,
         inode_table_start |-> layout.inode_table_start,
         inode_table_blocks |-> layout.inode_table_blocks,
         free_bitmap_start |-> layout.free_bitmap_start,
         free_bitmap_blocks |-> layout.free_bitmap_blocks,
         data_blocks_start |-> layout.data_blocks_start,
         max_inodes |-> layout.max_inodes,
         root_inode |-> 1,
         free_blocks |-> layout.total_blocks - layout.data_blocks_start,
         free_inodes |-> IF layout.max_inodes >= 1
                         THEN layout.max_inodes - 1 ELSE 0],
     inodes |->
        [i \in 1..layout.max_inodes |->
            IF i = 1
            THEN [id |-> 1, file_type |-> 2, size |-> 0, nlink |-> 2,
                  direct_blocks |-> NoDirect, indirect_block |-> 0,
                  double_indirect_block |-> 0]
            ELSE FreeInodeDisk],
     bitmap |->
        MarkUsed(Zeros((layout.total_blocks + 7) \div 8),
                 layout.data_blocks_start)]

\* main of mkfs: the folder's content after a successful format.  The disk
\* is kept as decoded regions: block 0 (sb), the inode table, the bitmap
\* region (free_bitmap_blocks * block_size bytes) and the data blocks; bad
\* is the set of block files that can no longer be opened.
Mkfs(total_blocks, block_size, inode_size) ==
    LET layout == build_layout(total_blocks, block_size, inode_size).val
        fresh == init_fresh_fs(layout, block_size)
        region == layout.free_bitmap_blocks * block_size
    IN  [sb |-> fresh.superblock,
         inodes |-> fresh.inodes,
         bitmap |-> [i \in 1..region |->
                        IF i <= Len(fresh.bitmap) THEN fresh.bitmap[i] ELSE 0],
         blocks |-> [b \in layout.data_blocks_start..(total_blocks - 1) |->
                        Zeros(block_size)],
         bad |-> {}]


\* ------------------------------------------------------ disk access (fs.rs)

\* Number of block files get_qr_entries finds in the folder.
NumEntries == TotalBlocks

\* File::open / File::create succeed on each of the n block files from
\* first on.
files_open(d, first, n) == \A b \in first..(first + n - 1) : b \notin d.bad

load_inode_disk(d, superblock, ino) ==
    IF ino = 0 \/ ino > superblock.max_inodes THEN Err
    ELSE IF superblock.inode_table_start + superblock.inode_table_blocks
              > NumEntries THEN Err
    ELSE IF ~files_open(d, superblock.inode_table_start,
                        superblock.inode_table_blocks) THEN Err
    ELSE IF (ino - 1) * InodeSize + InodeSize
              > superblock.inode_table_blocks * BlockSize THEN Err
    ELSE Ok(d.inodes[ino])

\* The inode table after write_inode_disk, or Err with the table untouched.
write_inode_disk(d, superblock, ino, inode) ==
    IF ino = 0 \/ ino > superblock.max_inodes THEN Err
    ELSE IF superblock.inode_table_start + superblock.inode_table_blocks
              > NumEntries THEN Err
    ELSE IF ~files_open(d, superblock.inode_table_start,
                        superblock.inode_table_blocks) THEN Err
    ELSE IF (ino - 1) * InodeSize + InodeSize
              > superblock.inode_table_blocks * BlockSize THEN Err
    ELSE Ok([d.inodes EXCEPT ![ino] = inode])

\* The bitmap region's bytes, cut to ceil(total_blocks / 8) bytes.
load_bitmap(d, superblock) ==
    LET needed_bytes == (superblock.total_blocks + 7) \div 8
    IN  IF superblock.free_bitmap_start + superblock.free_bitmap_blocks
             > NumEntries THEN Err
        ELSE IF ~files_open(d, superblock.free_bitmap_start,
                            superblock.free_bitmap_blocks) THEN Err
        ELSE Ok(SubSeq(d.bitmap, 1, Min(needed_bytes, Len(d.bitmap))))

\* The bitmap region after write_bitmap: the bitmap, zero-padded.
write_bitmap(d, superblock, bitmap) ==
    LET total_bytes == superblock.free_bitmap_blocks * BlockSize
        copy_len == Min(Len(bitmap), total_bytes)
    IN  IF superblock.free_bitmap_start + superblock.free_bitmap_blocks
             > NumEntries THEN Err
        ELSE IF ~files_open(d, superblock.free_bitmap_start,
                            superblock.free_bitmap_blocks) THEN Err
        ELSE Ok([i \in 1..total_bytes |->
                    IF i <= copy_len THEN bitmap[i] ELSE 0])

\* Block 0 after write_superblock.
write_superblock(d, sb) ==
    IF NumEntries = 0 THEN Err
    ELSE IF ~files_open(d, 0, 1) THEN Err
    ELSE Ok(sb)

read_fs_block(d, block_index) ==
    IF block_index >= NumEntries THEN Err
    ELSE IF ~files_open(d, block_index, 1) THEN Err
    ELSE IF block_index \in DOMAIN d.blocks THEN Ok(d.blocks[block_index])
    ELSE Ok(Zeros(BlockSize))

\* The data blocks after write_fs_block: data cut / zero-padded to a block.
\* (The handlers only ever pass block numbers alloc_block returned, which
\* lie in the data region; a metadata block number leaves d.blocks alone.)
write_fs_block(d, block_index, data) ==
    LET len == Min(BlockSize, Len(data))
        buf == [i \in 1..BlockSize |-> IF i <= len THEN data[i] ELSE 0]
    IN  IF block_index >= NumEntries THEN Err
        ELSE IF ~files_open(d, block_index, 1) THEN Err
        ELSE IF block_index \in DOMAIN d.blocks
             THEN Ok([d.blocks EXCEPT ![block_index] = buf])
             ELSE Ok(d.blocks)

\* dir::unpack_dir_entries: the DirEntryDisk records (60 bytes each) of a
\* block.  A block of the model is shorter than one record.
unpack_dir_entries(buf) == << >>

read_directory_from_disk(d, superblock, ino) ==
    LET ld == load_inode_disk(d, superblock, ino)
    IN  IF ~ld.ok THEN Err
        ELSE IF ld.val.file_type # 2 THEN Err
        ELSE IF ld.val.direct_blocks[1] = 0 THEN Ok(<< >>)
        ELSE LET rb == read_fs_block(d, ld.val.direct_blocks[1])
             IN  IF rb.ok THEN Ok(unpack_dir_entries(rb.val)) ELSE Err

\* ------------------------------------------------------------------ mount

\* Inode::dir / Inode::file.
InodeDir(ino) == [ino |-> ino, kind |-> "Directory", size |-> 0, nlink |-> 2]
InodeFile(ino, size) ==
    [ino |-> ino, kind |-> "RegularFile", size |-> size, nlink |-> 1]

SetMax(S) == IF S = {} THEN 0 ELSE CHOOSE m \in S : \A x \in S : x <= m
SetMin(S) == CHOOSE m \in S : \A x \in S : m <= x

\* HashMap insert / remove on a function.
MapInsert(f, k, v) == [x \in DOMAIN f \cup {k} |-> IF x = k THEN v ELSE f[x]]
MapRemove(f, k) == [x \in DOMAIN f \ {k} |-> f[x]]
EmptyMap == [x \in {} |-> 0]

\* Inserting the entries of a directory listing in order, skipping "." and
\* "..".
RECURSIVE EntriesMap(_, _)
EntriesMap(es, n) ==
    IF n = 0 THEN EmptyMap
    ELSE LET m == EntriesMap(es, n - 1)
             e == es[n]
         IN  IF e.name = "." \/ e.name = ".." THEN m
             ELSE MapInsert(m, e.name, e.ino)

\* mount_from_folder without the version check.
mount_from_folder_any_version(d) ==
    IF d.sb.magic # QRFS_MAGIC THEN Err
    ELSE
      LET superblock == d.sb
          root_ino == superblock.root_inode
          used == {ino \in 1..superblock.max_inodes :
                      LET ld == load_inode_disk(d, superblock, ino)
                      IN  ld.ok /\ ld.val.id # 0 /\ ld.val.nlink # 0}
          loaded == [ino \in used |->
                        [ino |-> ino,
                         kind |-> IF d.inodes[ino].file_type = 2
                                  THEN "Directory" ELSE "RegularFile",
                         size |-> d.inodes[ino].size,
                         nlink |-> d.inodes[ino].nlink]]
          max_ino_used == SetMax(used)
          rd == read_directory_from_disk(d, superblock, root_ino)
          es == IF rd.ok THEN rd.val ELSE << >>
          dotdot == {i \in 1..Len(es) : es[i].name = ".."}
          root_parent == IF dotdot = {} THEN root_ino
                         ELSE es[SetMax(dotdot)].ino
          inodes == IF max_ino_used = 0 /\ root_ino \notin used
                    THEN MapInsert(loaded, root_ino, InodeDir(root_ino))
                    ELSE loaded
          last == IF max_ino_used = 0 THEN Max(root_ino, 1) ELSE max_ino_used
      IN  Ok([superblock |-> superblock,
              free_blocks |-> superblock.free_blocks,
              free_inodes |-> superblock.free_inodes,
              inodes |-> inodes,
              directories |->
                  MapInsert(EmptyMap, root_ino,
                            [parent |-> root_parent,
                             entries |-> EntriesMap(es, Len(es))]),
              next_ino |-> last + 1,
              files |-> EmptyMap])

\* mount_from_folder: QrfsInner built from the folder, or Err.
mount_from_folder(d) ==
    IF d.sb.magic # QRFS_MAGIC THEN Err
    ELSE IF d.sb.version # QRFS_VERSION THEN Err
    ELSE
      LET superblock == d.sb
          root_ino == superblock.root_inode
          used == {ino \in 1..superblock.max_inodes :
                      LET ld == load_inode_disk(d, superblock, ino)
                      IN  ld.ok /\ ld.val.id # 0 /\ ld.val.nlink # 0}
          loaded == [ino \in used |->
                        [ino |-> ino,
                         kind |-> IF d.inodes[ino].file_type = 2
                                  THEN "Directory" ELSE "RegularFile",
                         size |-> d.inodes[ino].size,
                         nlink |-> d.inodes[ino].nlink]]
          max_ino_used == SetMax(used)
          rd == read_directory_from_disk(d, superblock, root_ino)
          es == IF rd.ok THEN rd.val ELSE << >>
          dotdot == {i \in 1..Len(es) : es[i].name = ".."}
          root_parent == IF dotdot = {} THEN root_ino
                         ELSE es[SetMax(dotdot)].ino
          inodes == IF max_ino_used = 0 /\ root_ino \notin used
                    THEN MapInsert(loaded, root_ino, InodeDir(root_ino))
                    ELSE loaded
          last == IF max_ino_used = 0 THEN Max(root_ino, 1) ELSE max_ino_used
      IN  Ok([superblock |-> superblock,
              free_blocks |-> superblock.free_blocks,
              free_inodes |-> superblock.free_inodes,
              inodes |-> inodes,
              directories |->
                  MapInsert(EmptyMap, root_ino,
                            [parent |-> root_parent,
                             entries |-> EntriesMap(es, Len(es))]),
              next_ino |-> last + 1,
              files |-> EmptyMap])

\* ------------------------------------------------------------------ state

VARIABLES
    disk,    \* the folder: sb (block 0), inodes, bitmap region, data blocks
    inner,   \* QrfsInner, the state behind Arc<RwLock<..>>
    lock,    \* the RwLock: writer (0 = none) and the set of readers
    pc,      \* per thread: "idle" or the next step of its handler
    loc,     \* per thread: the handler's local variables
    reply    \* per thread: the reply of its last completed request

vars == <<disk, inner, lock, pc, loc, reply>>

NoLoc ==
    [ino |-> 0, offset |-> 0, size |-> 0, len |-> 0, data |-> << >>,
     sb |-> 0, disk_inode |-> FreeInodeDisk, bitmap |-> << >>, b |-> 0]

\* A reply: its kind (created / written / data / entry / ok / error), for
\* reply.error the errno, and for reply.data the bytes.
Reply(k) == [kind |-> k, errno |-> "", data |-> << >>]
NoReply == Reply("none")
ReplyError(e) == [kind |-> "error", errno |-> e, data |-> << >>]
\* reply.data(bytes)
ReplyData(bytes) == [kind |-> "data", errno |-> "", data |-> bytes]

Init ==
    /\ disk = Mkfs(TotalBlocks, BlockSize, InodeSize)
    /\ inner = mount_from_folder(Mkfs(TotalBlocks, BlockSize, InodeSize)).val
    /\ lock = [writer |-> 0, readers |-> {}]
    /\ pc = [p \in Procs |-> "idle"]
    /\ loc = [p \in Procs |-> NoLoc]
    /\ reply = [p \in Procs |-> NoReply]


\* ----------------------------------------------------------------- dir.rs

is_directory(inr, ino) ==
    IF ino \in DOMAIN inr.inodes
    THEN inr.inodes[ino].kind = "Directory"
    ELSE FALSE

DirOk(inr, v) == [err |-> "", inner |-> inr, val |-> v]
DirErr(inr, e) == [err |-> e, inner |-> inr, val |-> 0]

\* DirError::as_errno.
as_errno(e) ==
    CASE e = "NotDirectory" -> "ENOTDIR"
      [] e = "NotFound" -> "ENOENT"
      [] e = "NotEmpty" -> "ENOTEMPTY"
      [] e = "NoSpace" -> "ENOSPC"
      [] OTHER -> "ENOSYS"

\* create_directory that reserves the inode number before it looks for
\* the name.
create_directory_reserves_first(inr, parent, name) ==
    IF ~is_directory(inr, parent) THEN DirErr(inr, "NotDirectory")
    ELSE IF parent \notin DOMAIN inr.directories
    THEN DirErr(inr, "NotDirectory")
    ELSE IF name \in DOMAIN inr.directories[parent].entries
    THEN DirErr([inr EXCEPT !.next_ino = @ + 1], "NotSupported")
    ELSE
      LET new_ino == inr.next_ino
          inr1 == [inr EXCEPT
                     !.next_ino = @ + 1,
                     !.inodes = MapInsert(@, new_ino, InodeDir(new_ino)),
                     !.directories =
                         MapInsert(@, new_ino,
                                   [parent |-> parent, entries |-> EmptyMap])]
          inr2 == [inr1 EXCEPT
                     !.directories[parent].entries =
                         MapInsert(@, name, new_ino)]
      IN  DirOk(inr2, new_ino)

create_directory(inr, parent, name) ==
    IF ~is_directory(inr, parent) THEN DirErr(inr, "NotDirectory")
    ELSE IF parent \notin DOMAIN inr.directories
    THEN DirErr(inr, "NotDirectory")
    ELSE IF name \in DOMAIN inr.directories[parent].entries
    THEN DirErr(inr, "NotSupported")
    ELSE
      LET new_ino == inr.next_ino
          inr1 == [inr EXCEPT
                     !.next_ino = @ + 1,
                     !.inodes = MapInsert(@, new_ino, InodeDir(new_ino)),
                     !.directories =
                         MapInsert(@, new_ino,
                                   [parent |-> parent, entries |-> EmptyMap])]
          inr2 == [inr1 EXCEPT
                     !.directories[parent].entries =
                         MapInsert(@, name, new_ino)]
      IN  DirOk(inr2, new_ino)

\* remove_directory that gives the inode number back when it was the last
\* one handed out.
remove_directory_releases_id(inr, parent, name) ==
    IF parent \notin DOMAIN inr.directories THEN DirErr(inr, "NotDirectory")
    ELSE IF name \notin DOMAIN inr.directories[parent].entries
    THEN DirErr(inr, "NotFound")
    ELSE
      LET child_ino == inr.directories[parent].entries[name]
      IN  IF ~is_directory(inr, child_ino) THEN DirErr(inr, "NotDirectory")
          ELSE IF child_ino \notin DOMAIN inr.directories
          THEN DirErr(inr, "NotDirectory")
          ELSE IF DOMAIN inr.directories[child_ino].entries # {}
          THEN DirErr(inr, "NotEmpty")
          ELSE
            LET inr1 == [inr EXCEPT
                           !.directories[parent].entries =
                               MapRemove(@, name)]
            IN  DirOk([inr1 EXCEPT
                         !.directories = MapRemove(@, child_ino),
                         !.inodes = MapRemove(@, child_ino),
                         !.next_ino = IF child_ino + 1 = @
                                      THEN child_ino ELSE @], 0)

\* remove_directory that leaves the parent's entry in place.
remove_directory_keeps_entry(inr, parent, name) ==
    IF parent \notin DOMAIN inr.directories THEN DirErr(inr, "NotDirectory")
    ELSE IF name \notin DOMAIN inr.directories[parent].entries
    THEN DirErr(inr, "NotFound")
    ELSE
      LET child_ino == inr.directories[parent].entries[name]
      IN  IF ~is_directory(inr, child_ino) THEN DirErr(inr, "NotDirectory")
          ELSE IF child_ino \notin DOMAIN inr.directories
          THEN DirErr(inr, "NotDirectory")
          ELSE IF DOMAIN inr.directories[child_ino].entries # {}
          THEN DirErr(inr, "NotEmpty")
          ELSE DirOk([inr EXCEPT
                        !.directories = MapRemove(@, child_ino),
                        !.inodes = MapRemove(@, child_ino)], 0)

\* remove_directory that drops the structures of the parent, not the child.
remove_directory_drops_parent(inr, parent, name) ==
    IF parent \notin DOMAIN inr.directories THEN DirErr(inr, "NotDirectory")
    ELSE IF name \notin DOMAIN inr.directories[parent].entries
    THEN DirErr(inr, "NotFound")
    ELSE
      LET child_ino == inr.directories[parent].entries[name]
      IN  IF ~is_directory(inr, child_ino) THEN DirErr(inr, "NotDirectory")
          ELSE IF child_ino \notin DOMAIN inr.directories
          THEN DirErr(inr, "NotDirectory")
          ELSE IF DOMAIN inr.directories[child_ino].entries # {}
          THEN DirErr(inr, "NotEmpty")
          ELSE
            LET inr1 == [inr EXCEPT
                           !.directories[parent].entries =
                               MapRemove(@, name)]
            IN  DirOk([inr1 EXCEPT
                         !.directories = MapRemove(@, parent),
                         !.inodes = MapRemove(@, parent)], 0)

remove_directory(inr, parent, name) ==
    IF parent \notin DOMAIN inr.directories THEN DirErr(inr, "NotDirectory")
    ELSE IF name \notin DOMAIN inr.directories[parent].entries
    THEN DirErr(inr, "NotFound")
    ELSE
      LET child_ino == inr.directories[parent].entries[name]
      IN  IF ~is_directory(inr, child_ino) THEN DirErr(inr, "NotDirectory")
          ELSE IF child_ino \notin DOMAIN inr.directories
          THEN DirErr(inr, "NotDirectory")
          ELSE IF DOMAIN inr.directories[child_ino].entries # {}
          THEN DirErr(inr, "NotEmpty")
          ELSE
            LET inr1 == [inr EXCEPT
                           !.directories[parent].entries =
                               MapRemove(@, name)]
            IN  DirOk([inr1 EXCEPT
                         !.directories = MapRemove(@, child_ino),
                         !.inodes = MapRemove(@, child_ino)], 0)

rename_entry(inr, parent, name, newparent, newname) ==
    IF ~is_directory(inr, parent) \/ ~is_directory(inr, newparent)
    THEN DirErr(inr, "NotDirectory")
    ELSE IF parent \notin DOMAIN inr.directories
    THEN DirErr(inr, "NotDirectory")
    ELSE IF name \notin DOMAIN inr.directories[parent].entries
    THEN DirErr(inr, "NotFound")
    ELSE
      LET child_ino == inr.directories[parent].entries[name]
          inr1 == [inr EXCEPT
                     !.directories[parent].entries = MapRemove(@, name)]
      IN  IF newparent \notin DOMAIN inr1.directories
          THEN DirErr(inr1, "NotDirectory")
          ELSE
            LET inr2 == [inr1 EXCEPT
                           !.directories[newparent].entries =
                               MapInsert(@, newname, child_ino)]
            IN  IF child_ino \in DOMAIN inr2.directories
                THEN DirOk([inr2 EXCEPT
                              !.directories[child_ino].parent = newparent], 0)
                ELSE DirOk(inr2, 0)

\* ------------------------------------------------------------- the RwLock

\* A write lock that is granted at once.
CanWriteAlways == TRUE

\* RwLock::write() returns once no thread holds the lock in either mode.
CanWrite == lock.writer = 0 /\ lock.readers = {}
\* RwLock::read() returns once no thread holds it for writing.
CanRead == lock.writer = 0

Unlocked == [writer |-> 0, readers |-> {}]

\* A handler that returns: its reply is sent and its guard dropped.  The
\* thread stays at "done", with the reply, until the session loop takes it
\* back (ret).
Finish(p, r) ==
    /\ pc' = [pc EXCEPT ![p] = "done"]
    /\ loc' = [loc EXCEPT ![p] = NoLoc]
    /\ reply' = [reply EXCEPT ![p] = r]
    /\ lock' = [writer |-> IF lock.writer = p THEN 0 ELSE lock.writer,
                readers |-> lock.readers \ {p}]

\* The session loop is ready for the thread's next request.
ret(p) ==
    /\ pc[p] = "done"
    /\ pc' = [pc EXCEPT ![p] = "idle"]
    /\ reply' = [reply EXCEPT ![p] = NoReply]
    /\ UNCHANGED <<disk, inner, lock, loc>>

\* A handler that goes on to step next, holding the write lock.
Continue(p, next, l) ==
    /\ pc' = [pc EXCEPT ![p] = next]
    /\ loc' = [loc EXCEPT ![p] = l]
    /\ reply' = [reply EXCEPT ![p] = NoReply]
    /\ lock' = [lock EXCEPT !.writer = p]

\* -------------------------------------------- mkdir / rmdir / rename (fs.rs)

\* next_ino stops growing one past the inode table (create / mkdir are
\* disabled beyond): one inode number with no slot on disk is handed out.
MaxIno == build_layout(TotalBlocks, BlockSize, InodeSize).val.max_inodes + 1

mkdir(p, parent, name) ==
    /\ pc[p] = "idle"
    /\ CanWrite
    /\ inner.next_ino <= MaxIno
    /\ LET r == create_directory(inner, parent, name)
       IN  /\ inner' = r.inner
           /\ Finish(p, IF r.err = "" THEN Reply("entry")
                        ELSE ReplyError(as_errno(r.err)))
    /\ UNCHANGED disk

rmdir(p, parent, name) ==
    /\ pc[p] = "idle"
    /\ CanWrite
    /\ LET r == remove_directory(inner, parent, name)
       IN  /\ inner' = r.inner
           /\ Finish(p, IF r.err = "" THEN Reply("ok")
                        ELSE ReplyError(as_errno(r.err)))
    /\ UNCHANGED disk

rename(p, parent, name, newparent, newname) ==
    /\ pc[p] = "idle"
    /\ CanWrite
    /\ LET r == rename_entry(inner, parent, name, newparent, newname)
       IN  /\ inner' = r.inner
           /\ Finish(p, IF r.err = "" THEN Reply("ok")
                        ELSE ReplyError(as_errno(r.err)))
    /\ UNCHANGED disk


\* ----------------------------------------------------------------- create

Dec(n) == IF n > 0 THEN n - 1 ELSE n

\* create that lowers the in-memory free-inode counter only.
create_begin_memory_counter_only(p, parent, name) ==
    /\ pc[p] = "idle"
    /\ CanWrite
    /\ inner.next_ino <= MaxIno
    /\ UNCHANGED disk
    /\ IF parent \notin DOMAIN inner.directories
       THEN /\ inner' = inner
            /\ Finish(p, ReplyError("ENOTDIR"))
       ELSE IF name \in DOMAIN inner.directories[parent].entries
       THEN /\ inner' = inner
            /\ Finish(p, ReplyError("EEXIST"))
       ELSE
         LET ino == inner.next_ino
             inr1 == [inner EXCEPT
                        !.next_ino = @ + 1,
                        !.inodes = MapInsert(@, ino, InodeFile(ino, 0)),
                        !.directories[parent].entries =
                            MapInsert(@, name, ino),
                        !.files = MapInsert(@, ino, << >>)]
         IN  IF ino <= inner.superblock.max_inodes
             THEN /\ inner' = [inr1 EXCEPT
                                 !.free_inodes = Dec(@)]
                  /\ Continue(p, "create_write_inode",
                              [NoLoc EXCEPT !.ino = ino,
                                            !.disk_inode =
                                                NewFileInodeDisk(ino)])
             ELSE /\ inner' = inr1
                  /\ Finish(p, Reply("created"))

\* create, up to its first disk write: the lock is taken, the in-memory
\* inode, directory entry and empty content are inserted and the free-inode
\* counters lowered.
create_begin(p, parent, name) ==
    /\ pc[p] = "idle"
    /\ CanWrite
    /\ inner.next_ino <= MaxIno
    /\ UNCHANGED disk
    /\ IF parent \notin DOMAIN inner.directories
       THEN /\ inner' = inner
            /\ Finish(p, ReplyError("ENOTDIR"))
       ELSE IF name \in DOMAIN inner.directories[parent].entries
       THEN /\ inner' = inner
            /\ Finish(p, ReplyError("EEXIST"))
       ELSE
         LET ino == inner.next_ino
             inr1 == [inner EXCEPT
                        !.next_ino = @ + 1,
                        !.inodes = MapInsert(@, ino, InodeFile(ino, 0)),
                        !.directories[parent].entries =
                            MapInsert(@, name, ino),
                        !.files = MapInsert(@, ino, << >>)]
         IN  IF ino <= inner.superblock.max_inodes
             THEN /\ inner' = [inr1 EXCEPT
                                 !.free_inodes = Dec(@),
                                 !.superblock.free_inodes = Dec(@)]
                  /\ Continue(p, "create_write_inode",
                              [NoLoc EXCEPT !.ino = ino,
                                            !.disk_inode =
                                                NewFileInodeDisk(ino)])
             ELSE /\ inner' = inr1
                  /\ Finish(p, Reply("created"))

\* create: write_inode_disk (an error is only logged).
create_write_inode(p) ==
    /\ pc[p] = "create_write_inode"
    /\ LET wr == write_inode_disk(disk, inner.superblock, loc[p].ino,
                                  loc[p].disk_inode)
       IN  disk' = IF wr.ok THEN [disk EXCEPT !.inodes = wr.val] ELSE disk
    /\ Continue(p, "create_write_superblock", loc[p])
    /\ UNCHANGED inner

\* create: write_superblock (an error is only logged), then reply.created.
create_write_superblock(p) ==
    /\ pc[p] = "create_write_superblock"
    /\ LET ws == write_superblock(disk, inner.superblock)
       IN  disk' = IF ws.ok THEN [disk EXCEPT !.sb = ws.val] ELSE disk
    /\ Finish(p, Reply("created"))
    /\ UNCHANGED inner

\* ------------------------------------------------------------ alloc_block

\* A scan that keeps the last free block it sees instead of stopping at the
\* first.
first_free_block_last(bitmap, sb) ==
    LET free == {b \in sb.data_blocks_start..(sb.total_blocks - 1) :
                    ~bitmap_test(bitmap, b)}
    IN  IF free = {} THEN 0 ELSE SetMax(free)

\* A scan that falls back to the first data block when no bit is 0.
first_free_block_wrap(bitmap, sb) ==
    LET free == {b \in sb.data_blocks_start..(sb.total_blocks - 1) :
                    ~bitmap_test(bitmap, b)}
    IN  IF free = {} THEN sb.data_blocks_start ELSE SetMin(free)

\* The block the scan of alloc_block stops at: the lowest block of the data
\* region whose bit is 0 (0 when there is none).
first_free_block(bitmap, sb) ==
    LET free == {b \in sb.data_blocks_start..(sb.total_blocks - 1) :
                    ~bitmap_test(bitmap, b)}
    IN  IF free = {} THEN 0 ELSE SetMin(free)

\* alloc_block that forgets bitmap_set.
alloc_block_no_set(inr, d) ==
    LET sb == inr.superblock
        lb == load_bitmap(d, sb)
        b == IF lb.ok THEN first_free_block(lb.val, sb) ELSE 0
    IN  IF ~lb.ok \/ b = 0
        THEN [ok |-> FALSE, b |-> 0, bitmap |-> << >>, inner |-> inr]
        ELSE [ok |-> TRUE, b |-> b,
              bitmap |-> lb.val,
              inner |-> [inr EXCEPT !.free_blocks = Dec(@),
                                    !.superblock.free_blocks = Dec(@)]]

\* alloc_block that lowers only the superblock's counter.
alloc_block_sb_only(inr, d) ==
    LET sb == inr.superblock
        lb == load_bitmap(d, sb)
        b == IF lb.ok THEN first_free_block(lb.val, sb) ELSE 0
    IN  IF ~lb.ok \/ b = 0
        THEN [ok |-> FALSE, b |-> 0, bitmap |-> << >>, inner |-> inr]
        ELSE [ok |-> TRUE, b |-> b,
              bitmap |-> bitmap_set(lb.val, b, TRUE),
              inner |-> [inr EXCEPT !.superblock.free_blocks = Dec(@)]]

\* alloc_block up to its disk writes: the chosen block, the bitmap with its
\* bit set, and QrfsInner with both free-block counters lowered.
alloc_block(inr, d) ==
    LET sb == inr.superblock
        lb == load_bitmap(d, sb)
        b == IF lb.ok THEN first_free_block(lb.val, sb) ELSE 0
    IN  IF ~lb.ok \/ b = 0
        THEN [ok |-> FALSE, b |-> 0, bitmap |-> << >>, inner |-> inr]
        ELSE [ok |-> TRUE, b |-> b,
              bitmap |-> bitmap_set(lb.val, b, TRUE),
              inner |-> [inr EXCEPT !.free_blocks = Dec(@),
                                    !.superblock.free_blocks = Dec(@)]]

\* The superblock persisted before the bitmap.
AllocWriteOrderRev == <<"superblock", "bitmap">>

\* The order in which alloc_block persists what it changed.
AllocWriteOrder == <<"bitmap", "superblock">>

\* The disk writes of alloc_block, with the bitmap never written.
alloc_persist_skips_bitmap(d, inr, bitmap, what) ==
    IF what = "bitmap"
    THEN Ok(d)
    ELSE LET ws == write_superblock(d, inr.superblock)
         IN  IF ws.ok THEN Ok([d EXCEPT !.sb = ws.val]) ELSE Err

\* One of the two disk writes of alloc_block.
alloc_persist(d, inr, bitmap, what) ==
    IF what = "bitmap"
    THEN LET wb == write_bitmap(d, inr.superblock, bitmap)
         IN  IF wb.ok THEN Ok([d EXCEPT !.bitmap = wb.val]) ELSE Err
    ELSE LET ws == write_superblock(d, inr.superblock)
         IN  IF ws.ok THEN Ok([d EXCEPT !.sb = ws.val]) ELSE Err

\* ------------------------------------------------------------------ write

\* buf.resize(needed_len, 0); buf[offset..offset+len].copy_from_slice(data)
write_buf(buf, offset, data) ==
    LET needed_len == offset + Len(data)
        n == Max(Len(buf), needed_len)
    IN  [i \in 1..n |->
            IF i > offset /\ i <= needed_len THEN data[i - offset]
            ELSE IF i <= Len(buf) THEN buf[i] ELSE 0]

\* write, up to its first disk write: the lock is taken, the in-memory
\* content and inode size are updated, the on-disk inode is loaded and, when
\* it has no direct block 0, alloc_block picks one.
write_begin(p, ino, offset, data) ==
    /\ pc[p] = "idle"
    /\ UNCHANGED disk
    /\ IF offset < 0
       THEN /\ inner' = inner
            /\ Finish(p, ReplyError("EINVAL"))
       ELSE
         /\ CanWrite
         /\ IF ino \notin DOMAIN inner.files
            THEN /\ inner' = inner
                 /\ Finish(p, ReplyError("ENOENT"))
            ELSE
              LET buf == write_buf(inner.files[ino], offset, data)
                  needed_len == offset + Len(data)
                  inr1 == [inner EXCEPT
                             !.files[ino] = buf,
                             !.inodes =
                                 IF ino \in DOMAIN @
                                 THEN [@ EXCEPT ![ino].size =
                                          Max(@, needed_len)]
                                 ELSE @]
                  sb == inner.superblock
                  to_write == Min(sb.block_size, Len(buf))
                  ld == load_inode_disk(disk, sb, ino)
                  disk_inode == IF ld.ok THEN ld.val
                                ELSE NewFileInodeDisk(ino)
                  l == [NoLoc EXCEPT !.ino = ino, !.offset = offset,
                                     !.len = Len(data),
                                     !.data = SubSeq(buf, 1, to_write),
                                     !.sb = sb,
                                     !.disk_inode = disk_inode]
              IN  IF disk_inode.direct_blocks[1] = 0
                  THEN LET a == alloc_block(inr1, disk)
                       IN  /\ inner' = a.inner
                           /\ IF a.ok
                              THEN Continue(p, "alloc_write_first",
                                            [l EXCEPT !.b = a.b,
                                                      !.bitmap = a.bitmap])
                              ELSE Finish(p, Reply("written"))
                  ELSE /\ inner' = inr1
                       /\ Continue(p, "write_data", l)

\* alloc_block: its first disk write.
alloc_write_first(p) ==
    /\ pc[p] = "alloc_write_first"
    /\ LET w == alloc_persist(disk, inner, loc[p].bitmap, AllocWriteOrder[1])
       IN  IF w.ok
           THEN /\ disk' = w.val
                /\ Continue(p, "alloc_write_second", loc[p])
           ELSE /\ disk' = disk
                /\ Finish(p, Reply("written"))
    /\ UNCHANGED inner

\* alloc_block: its second disk write and its return into write, which
\* stores the block in direct_blocks[0] of the loaded inode.
alloc_write_second(p) ==
    /\ pc[p] = "alloc_write_second"
    /\ LET w == alloc_persist(disk, inner, loc[p].bitmap, AllocWriteOrder[2])
       IN  IF w.ok
           THEN /\ disk' = w.val
                /\ Continue(p, "write_data",
                            [loc[p] EXCEPT
                                !.disk_inode.direct_blocks[1] = loc[p].b])
           ELSE /\ disk' = disk
                /\ Finish(p, Reply("written"))
    /\ UNCHANGED inner

\* write: write_fs_block of the first block of the content.
write_data(p) ==
    /\ pc[p] = "write_data"
    /\ LET w == write_fs_block(disk, loc[p].disk_inode.direct_blocks[1],
                               loc[p].data)
       IN  IF w.ok
           THEN /\ disk' = [disk EXCEPT !.blocks = w.val]
                /\ Continue(p, "write_inode",
                            [loc[p] EXCEPT
                                !.disk_inode.size = Len(loc[p].data)])
           ELSE /\ disk' = disk
                /\ Finish(p, Reply("written"))
    /\ UNCHANGED inner

\* write: write_inode_disk (an error is only logged), then reply.written.
write_inode(p) ==
    /\ pc[p] = "write_inode"
    /\ LET wr == write_inode_disk(disk, loc[p].sb, loc[p].ino,
                                  loc[p].disk_inode)
       IN  disk' = IF wr.ok THEN [disk EXCEPT !.inodes = wr.val] ELSE disk
    /\ Finish(p, Reply("written"))
    /\ UNCHANGED inner


\* ------------------------------------------------------------------- read

\* read: self.inner.read() is taken.
read_begin(p, ino, offset, size) ==
    /\ pc[p] = "idle"
    /\ UNCHANGED <<disk, inner>>
    /\ IF offset < 0
       THEN Finish(p, ReplyError("EINVAL"))
       ELSE /\ CanRead
            /\ lock' = [lock EXCEPT !.readers = @ \cup {p}]
            /\ pc' = [pc EXCEPT ![p] = "read_snapshot"]
            /\ loc' = [loc EXCEPT ![p] =
                          [NoLoc EXCEPT !.ino = ino, !.offset = offset,
                                        !.size = size]]
            /\ reply' = [reply EXCEPT ![p] = NoReply]

\* The in-memory path of read: data[offset .. min(offset + size, len)).
read_from_ram(data, offset, size) ==
    IF offset >= Len(data) THEN << >>
    ELSE SubSeq(data, offset + 1, Min(offset + size, Len(data)))

\* read: the superblock and the file's buffer are copied and the read guard
\* is dropped; a file held in RAM is answered from the copy.
read_snapshot(p) ==
    /\ pc[p] = "read_snapshot"
    /\ UNCHANGED <<disk, inner>>
    /\ IF loc[p].ino \in DOMAIN inner.files
       THEN Finish(p, ReplyData(read_from_ram(inner.files[loc[p].ino],
                                              loc[p].offset, loc[p].size)))
       ELSE /\ lock' = [lock EXCEPT !.readers = @ \ {p}]
            /\ pc' = [pc EXCEPT ![p] = "read_load_inode"]
            /\ loc' = [loc EXCEPT ![p].sb = inner.superblock]
            /\ UNCHANGED reply

\* read: load_inode_disk, with no lock held.
read_load_inode(p) ==
    /\ pc[p] = "read_load_inode"
    /\ UNCHANGED <<disk, inner>>
    /\ LET ld == load_inode_disk(disk, loc[p].sb, loc[p].ino)
       IN  IF ~ld.ok THEN Finish(p, ReplyError("EIO"))
           ELSE IF ld.val.file_type = 2 THEN Finish(p, ReplyError("EISDIR"))
           ELSE IF loc[p].offset >= ld.val.size
           THEN Finish(p, ReplyData(<< >>))
           ELSE /\ pc' = [pc EXCEPT ![p] = "read_blocks"]
                /\ loc' = [loc EXCEPT ![p].disk_inode = ld.val]
                /\ UNCHANGED <<lock, reply>>

\* The block loop of the on-disk path of read, from block i on; result is
\* what the earlier blocks gave.
RECURSIVE read_loop(_, _, _, _, _, _, _, _)
read_loop(d, inode, block_size, start, end, to_read, i, result) ==
    LET first_block_idx == start \div block_size
        last_block_idx == (end - 1) \div block_size
        b == inode.direct_blocks[i + 1]
        remaining == to_read - Len(result)
        rb == read_fs_block(d, b)
        block_start == i * block_size
        in_block_start == IF i = first_block_idx
                          THEN start - block_start ELSE 0
        in_block_end == IF i = last_block_idx
                        THEN Min(end - block_start, Len(rb.val))
                        ELSE Len(rb.val)
    IN  IF i > last_block_idx \/ i >= NDirect THEN Ok(result)
        ELSE IF b = 0
        THEN IF remaining = 0 THEN Ok(result)
             ELSE read_loop(d, inode, block_size, start, end, to_read, i + 1,
                            result \o Zeros(Min(remaining, block_size)))
        ELSE IF ~rb.ok THEN Err
        ELSE read_loop(d, inode, block_size, start, end, to_read, i + 1,
                       IF in_block_start < in_block_end
                          /\ in_block_start < Len(rb.val)
                       THEN result \o SubSeq(rb.val, in_block_start + 1,
                                             in_block_end)
                       ELSE result)

\* The on-disk path without the final truncate.
read_from_disk_no_truncate(d, inode, block_size, offset, size) ==
    LET to_read == Min(size, inode.size - offset)
    IN  read_loop(d, inode, block_size, offset, offset + to_read,
                  to_read, offset \div block_size, << >>)

\* The on-disk path of read for an inode with offset < size.
read_from_disk(d, inode, block_size, offset, size) ==
    LET to_read == Min(size, inode.size - offset)
        r == read_loop(d, inode, block_size, offset, offset + to_read,
                       to_read, offset \div block_size, << >>)
    IN  IF ~r.ok THEN Err
        ELSE IF Len(r.val) > to_read THEN Ok(SubSeq(r.val, 1, to_read))
        ELSE r

\* read: the data blocks are read, with no lock held, and the reply sent.
read_blocks(p) ==
    /\ pc[p] = "read_blocks"
    /\ UNCHANGED <<disk, inner>>
    /\ LET r == read_from_disk(disk, loc[p].disk_inode, loc[p].sb.block_size,
                               loc[p].offset, loc[p].size)
       IN  Finish(p, IF r.ok THEN ReplyData(r.val)
                     ELSE ReplyError("EIO"))

\* ---------------------------------------------------------- specification

\* Inode numbers a request may name: every number create / mkdir hands out.
Inos == 1..MaxIno

\* The steps thread p can take, for requests drawn from the given sets.
\* (read_blocks follows read_load_inode only for a file with no buffer in
\* inner.files; every file created since the mount has one.)
Step(p, parents, names, inos, wshapes, rshapes) ==
    \/ \E parent \in parents, name \in names : create_begin(p, parent, name)
    \/ create_write_inode(p)
    \/ create_write_superblock(p)
    \/ \E ino \in inos, w \in wshapes :
           write_begin(p, ino, w[1], Payload(w[2]))
    \/ alloc_write_first(p)
    \/ alloc_write_second(p)
    \/ write_data(p)
    \/ write_inode(p)
    \/ \E parent \in parents, name \in names : mkdir(p, parent, name)
    \/ \E parent \in parents, name \in names : rmdir(p, parent, name)
    \/ \E parent \in parents, name \in names,
          newparent \in parents, newname \in names :
           rename(p, parent, name, newparent, newname)
    \/ \E ino \in inos, r \in rshapes : read_begin(p, ino, r[1], r[2])
    \/ read_snapshot(p)
    \/ read_load_inode(p)
    \/ ret(p)

\* fuser's session loop hands the handlers one request at a time: a single
\* thread runs them.
Next == \E p \in {1} : Step(p, Parents, Names, Inos, WriteShapes, ReadShapes)

Spec == Init /\ [][Next]_vars

\* Requests dispatched concurrently to NProcs threads sharing QrfsInner
\* (QrfsFilesystem is a cloneable handle on Arc<RwLock<QrfsInner>>).
NextConc ==
    \E p \in Procs :
        Step(p, {ROOT_INO}, {"a"}, {ROOT_INO, 2},
             {<<0, BlockSize + 1>>}, {<<0, 1>>})

SpecConc == Init /\ [][NextConc]_vars

\* ------------------------------------------------------------ mkfs, main

\* The folder before mkfs: block files that hold no filesystem.
BlankFolder ==
    [sb |-> [magic |-> 0, version |-> 0, block_size |-> 0, total_blocks |-> 0,
             inode_table_start |-> 0, inode_table_blocks |-> 0,
             free_bitmap_start |-> 0, free_bitmap_blocks |-> 0,
             data_blocks_start |-> 0, max_inodes |-> 0, root_inode |-> 0,
             free_blocks |-> 0, free_inodes |-> 0],
     inodes |-> << >>, bitmap |-> << >>, blocks |-> EmptyMap, bad |-> {}]

\* mkfs is started on a folder of 0 .. MkfsMaxBlocks block files.
InitMkfs ==
    /\ disk = BlankFolder
    /\ inner = mount_from_folder(Mkfs(TotalBlocks, BlockSize, InodeSize)).val
    /\ lock = [writer |-> 0, readers |-> {}]
    /\ pc = [p \in Procs |-> IF p = 1 THEN "mkfs_start" ELSE "idle"]
    /\ \E t \in 0..MkfsMaxBlocks :
           loc = [p \in Procs |->
                     IF p = 1 THEN [total_blocks |-> t] ELSE NoLoc]
    /\ reply = [p \in Procs |-> NoReply]

\* main, steps 2 to 4: the block files are counted, the layout is planned
\* and the superblock, inode vector and bitmap are built in memory.
mkfs_plan(p) ==
    /\ pc[p] = "mkfs_start"
    /\ LET t == loc[p].total_blocks
           bl == build_layout(t, BlockSize, InodeSize)
       IN  IF t = 0 \/ ~bl.ok
           THEN /\ pc' = [pc EXCEPT ![p] = "mkfs_failed"]
                /\ loc' = loc
           ELSE /\ pc' = [pc EXCEPT ![p] = "mkfs_write_superblock"]
                /\ loc' = [loc EXCEPT ![p] =
                              [total_blocks |-> t, layout |-> bl.val,
                               fresh |-> init_fresh_fs(bl.val, BlockSize)]]
    /\ UNCHANGED <<disk, inner, lock, reply>>

\* write_superblock of mkfs: block 0.
mkfs_write_superblock(p) ==
    /\ pc[p] = "mkfs_write_superblock"
    /\ disk' = [disk EXCEPT !.sb = loc[p].fresh.superblock]
    /\ pc' = [pc EXCEPT ![p] = "mkfs_write_inode_table"]
    /\ UNCHANGED <<inner, lock, loc, reply>>

\* write_inode_table: the inode vector, when it fits the table's blocks.
mkfs_write_inode_table(p) ==
    /\ pc[p] = "mkfs_write_inode_table"
    /\ LET layout == loc[p].layout
           max_bytes == layout.inode_table_blocks * BlockSize
       IN  IF Len(loc[p].fresh.inodes) * InodeSize > max_bytes
           THEN /\ pc' = [pc EXCEPT ![p] = "mkfs_failed"]
                /\ disk' = disk
           ELSE /\ pc' = [pc EXCEPT ![p] = "mkfs_write_bitmap"]
                /\ disk' = [disk EXCEPT !.inodes = loc[p].fresh.inodes]
    /\ UNCHANGED <<inner, lock, loc, reply>>

\* write_bitmap of mkfs: the bitmap, zero-padded to its region.
mkfs_write_bitmap(p) ==
    /\ pc[p] = "mkfs_write_bitmap"
    /\ LET layout == loc[p].layout
           bitmap == loc[p].fresh.bitmap
           max_bytes == layout.free_bitmap_blocks * BlockSize
       IN  IF Len(bitmap) > max_bytes
           THEN /\ pc' = [pc EXCEPT ![p] = "mkfs_failed"]
                /\ disk' = disk
           ELSE /\ pc' = [pc EXCEPT ![p] = "mkfs_zero_data"]
                /\ disk' = [disk EXCEPT !.bitmap =
                               [i \in 1..max_bytes |->
                                   IF i <= Len(bitmap) THEN bitmap[i] ELSE 0]]
    /\ UNCHANGED <<inner, lock, loc, reply>>

\* zero_data_blocks, and the end of main.
mkfs_zero_data(p) ==
    /\ pc[p] = "mkfs_zero_data"
    /\ disk' = [disk EXCEPT !.blocks =
                   [b \in loc[p].layout.data_blocks_start
                             ..(loc[p].total_blocks - 1) |->
                       Zeros(BlockSize)]]
    /\ pc' = [pc EXCEPT ![p] = "mkfs_done"]
    /\ UNCHANGED <<inner, lock, loc, reply>>

NextMkfs ==
    \E p \in {1} :
        \/ mkfs_plan(p)
        \/ mkfs_write_superblock(p)
        \/ mkfs_write_inode_table(p)
        \/ mkfs_write_bitmap(p)
        \/ mkfs_zero_data(p)

SpecMkfs == InitMkfs /\ [][NextMkfs]_vars

\* ------------------------------------------------------------------ fsck

\* FsckReport::new: both rollups true, no findings.
NewReport == [blocks_ok |-> TRUE, inodes_ok |-> TRUE, errors |-> << >>]

\* One entry of report.errors: the message's fixed text and the values
\* formatted into it.
Finding(msg, a, b, name) == [msg |-> msg, a |-> a, b |-> b, name |-> name]

RECURSIVE Flatten(_)
Flatten(ss) ==
    IF Len(ss) = 0 THEN << >> ELSE Head(ss) \o Flatten(Tail(ss))

\* The findings of `found` pushed onto the report; `blocks` and `inodes` tell
\* whether a push came with blocks_ok = false or inodes_ok = false.
Push(report, found, blocks, inodes) ==
    [blocks_ok |-> report.blocks_ok /\ ~blocks,
     inodes_ok |-> report.inodes_ok /\ ~inodes,
     errors |-> report.errors \o found]

\* inodes[i] and bitmap[i] of the backend, for a 0-based index i.
InodeAt(backend, i) == backend.inodes[i + 1]

\* MockBackend::read_dir: the entries of directory ino, none past the end.
read_dir(backend, ino) ==
    IF ino < Len(backend.dirs) THEN backend.dirs[ino + 1] ELSE << >>

\* The pointers of an inode in the order the passes visit them.
PointerList(inode) ==
    [k \in 1..Len(inode.direct) |-> [kind |-> "direct", blk |-> inode.direct[k]]]
    \o [k \in 1..Len(inode.indirect1) |->
           [kind |-> "indirect1", blk |-> inode.indirect1[k]]]
    \o [k \in 1..Len(inode.indirect2) |->
           [kind |-> "indirect2", blk |-> inode.indirect2[k]]]

\* check_superblock that accepts a root_inode one past the last inode.
check_superblock_root_past_end(backend, report) ==
    LET sb == backend.superblock
        n_inodes == Len(backend.inodes)
        n_bits == Len(backend.bitmap)
        found ==
            (IF sb.magic # 4660
             THEN <<Finding("Superblock: magic", 0, 0, "")>> ELSE << >>)
            \o (IF sb.num_inodes # n_inodes
                THEN <<Finding("Superblock: num_inodes", sb.num_inodes,
                               n_inodes, "")>>
                ELSE << >>)
            \o (IF sb.num_blocks # n_bits
                THEN <<Finding("Superblock: num_blocks", sb.num_blocks,
                               n_bits, "")>>
                ELSE << >>)
            \o (IF sb.root_inode > n_inodes
                THEN <<Finding("Superblock: root_inode", sb.root_inode, 0, "")>>
                ELSE << >>)
            \o (IF sb.num_blocks = 0
                THEN <<Finding("Superblock: num_blocks no puede ser 0",
                               0, 0, "")>>
                ELSE << >>)
            \o (IF sb.num_inodes = 0
                THEN <<Finding("Superblock: num_inodes no puede ser 0",
                               0, 0, "")>>
                ELSE << >>)
    IN  Push(report, found,
             sb.num_blocks # n_bits \/ sb.num_blocks = 0,
             sb.num_inodes # n_inodes \/ sb.root_inode > n_inodes
                \/ sb.num_inodes = 0)

check_superblock(backend, report) ==
    LET sb == backend.superblock
        n_inodes == Len(backend.inodes)
        n_bits == Len(backend.bitmap)
        found ==
            (IF sb.magic # 4660
             THEN <<Finding("Superblock: magic", 0, 0, "")>> ELSE << >>)
            \o (IF sb.num_inodes # n_inodes
                THEN <<Finding("Superblock: num_inodes", sb.num_inodes,
                               n_inodes, "")>>
                ELSE << >>)
            \o (IF sb.num_blocks # n_bits
                THEN <<Finding("Superblock: num_blocks", sb.num_blocks,
                               n_bits, "")>>
                ELSE << >>)
            \o (IF sb.root_inode >= n_inodes
                THEN <<Finding("Superblock: root_inode", sb.root_inode, 0, "")>>
                ELSE << >>)
            \o (IF sb.num_blocks = 0
                THEN <<Finding("Superblock: num_blocks no puede ser 0",
                               0, 0, "")>>
                ELSE << >>)
            \o (IF sb.num_inodes = 0
                THEN <<Finding("Superblock: num_inodes no puede ser 0",
                               0, 0, "")>>
                ELSE << >>)
    IN  Push(report, found,
             sb.num_blocks # n_bits \/ sb.num_blocks = 0,
             sb.num_inodes # n_inodes \/ sb.root_inode >= n_inodes
                \/ sb.num_inodes = 0)

\* u32::MAX, held in the widest integer the checker has.
U32_MAX == 2147483647

check_inodes_basic(backend, report) ==
    LET total_blocks == backend.superblock.num_blocks
        OfInode(idx) ==
            LET inode == InodeAt(backend, idx)
                n == Len(inode.direct)
            IN  (IF inode.size = U32_MAX
                 THEN <<Finding("tamano invalido", idx, 0, "")>> ELSE << >>)
                \o Flatten([k \in 1..n |->
                      IF inode.direct[k] >= total_blocks
                      THEN <<Finding("bloque directo fuera de rango", idx,
                                     inode.direct[k], "")>>
                      ELSE << >>])
                \o (IF Len(inode.indirect1) > 0
                       /\ inode.indirect1[1] >= total_blocks
                    THEN <<Finding("indirect1 fuera de rango", idx,
                                   inode.indirect1[1], "")>>
                    ELSE << >>)
                \o (IF Len(inode.indirect2) > 0
                       /\ inode.indirect2[1] >= total_blocks
                    THEN <<Finding("indirect2 fuera de rango", idx,
                                   inode.indirect2[1], "")>>
                    ELSE << >>)
                \o Flatten([k \in 1..n |->
                      IF \E j \in 1..(k - 1) : inode.direct[j] = inode.direct[k]
                      THEN <<Finding("bloque duplicado", idx,
                                     inode.direct[k], "")>>
                      ELSE << >>])
        found == Flatten([i \in 1..Len(backend.inodes) |-> OfInode(i - 1)])
    IN  Push(report, found, FALSE, Len(found) > 0)

\* check_blocks_global with a set of seen blocks per inode.
check_blocks_global_per_inode(backend, sb, report) ==
    LET OfInode(i) ==
            LET ptrs == PointerList(backend.inodes[i])
            IN  Flatten([k \in 1..Len(ptrs) |->
                    IF \E j \in 1..(k - 1) : ptrs[j].blk = ptrs[k].blk
                    THEN <<Finding("duplicado globalmente", i - 1,
                                   ptrs[k].blk, ptrs[k].kind)>>
                    ELSE << >>])
        found == Flatten([i \in 1..Len(backend.inodes) |-> OfInode(i)])
    IN  Push(report, found, Len(found) > 0, FALSE)

check_blocks_global(backend, sb, report) ==
    LET visits ==
            Flatten([i \in 1..Len(backend.inodes) |->
                LET ptrs == PointerList(backend.inodes[i])
                IN  [k \in 1..Len(ptrs) |->
                        [ino |-> i - 1, kind |-> ptrs[k].kind,
                         blk |-> ptrs[k].blk]]])
        found ==
            Flatten([k \in 1..Len(visits) |->
                IF \E j \in 1..(k - 1) : visits[j].blk = visits[k].blk
                THEN <<Finding("duplicado globalmente", visits[k].ino,
                               visits[k].blk, visits[k].kind)>>
                ELSE << >>])
    IN  Push(report, found, Len(found) > 0, FALSE)

\* check_dirs that does not look at the findings of the superblock pass.
check_dirs_no_skip(backend, report) ==
    LET sb == backend.superblock
        n_inodes == Len(backend.inodes)
        OfEntry(ino_id, entry) ==
            (IF entry.name = ""
             THEN <<Finding("dirent con nombre vacio", ino_id, 0, "")>>
             ELSE << >>)
            \o (IF entry.inode >= n_inodes
                THEN <<Finding("dirent apunta a inodo inexistente", ino_id,
                               entry.inode, entry.name)>>
                ELSE IF entry.is_dir # InodeAt(backend, entry.inode).is_dir
                THEN <<Finding("dirent declara tipo incorrecto", ino_id, 0,
                               entry.name)>>
                ELSE << >>)
        OfInode(ino_id) ==
            IF InodeAt(backend, ino_id).is_dir
            THEN LET entries == read_dir(backend, ino_id)
                 IN  Flatten([k \in 1..Len(entries) |->
                                 OfEntry(ino_id, entries[k])])
            ELSE << >>
        each == Flatten([i \in 1..n_inodes |-> OfInode(i - 1)])
    IN  IF sb.root_inode >= n_inodes
        THEN Push(report, <<Finding("Root inode fuera de rango", 0, 0, "")>>,
                  FALSE, TRUE)
        ELSE IF ~InodeAt(backend, sb.root_inode).is_dir
        THEN Push(report,
                  <<Finding("Root inode no es un directorio", 0, 0, "")>>
                     \o each,
                  FALSE, TRUE)
        ELSE Push(report, each, FALSE, FALSE)

\* check_dirs that passes over an entry to an inode past the end in silence.
check_dirs_skip_unknown(backend, report) ==
    LET sb == backend.superblock
        n_inodes == Len(backend.inodes)
        OfEntry(ino_id, entry) ==
            (IF entry.name = ""
             THEN <<Finding("dirent con nombre vacio", ino_id, 0, "")>>
             ELSE << >>)
            \o (IF entry.inode >= n_inodes
                THEN << >>
                ELSE IF entry.is_dir # InodeAt(backend, entry.inode).is_dir
                THEN <<Finding("dirent declara tipo incorrecto", ino_id, 0,
                               entry.name)>>
                ELSE << >>)
        OfInode(ino_id) ==
            IF InodeAt(backend, ino_id).is_dir
            THEN LET entries == read_dir(backend, ino_id)
                 IN  Flatten([k \in 1..Len(entries) |->
                                 OfEntry(ino_id, entries[k])])
            ELSE << >>
        each == Flatten([i \in 1..n_inodes |-> OfInode(i - 1)])
    IN  IF \E k \in 1..Len(report.errors) :
              report.errors[k].msg = "Superblock: root_inode"
        THEN report
        ELSE IF sb.root_inode >= n_inodes
        THEN Push(report, <<Finding("Root inode fuera de rango", 0, 0, "")>>,
                  FALSE, TRUE)
        ELSE IF ~InodeAt(backend, sb.root_inode).is_dir
        THEN Push(report,
                  <<Finding("Root inode no es un directorio", 0, 0, "")>>
                     \o each,
                  FALSE, TRUE)
        ELSE Push(report, each, FALSE, FALSE)

check_dirs(backend, report) ==
    LET sb == backend.superblock
        n_inodes == Len(backend.inodes)
        OfEntry(ino_id, entry) ==
            (IF entry.name = ""
             THEN <<Finding("dirent con nombre vacio", ino_id, 0, "")>>
             ELSE << >>)
            \o (IF entry.inode >= n_inodes
                THEN <<Finding("dirent apunta a inodo inexistente", ino_id,
                               entry.inode, entry.name)>>
                ELSE IF entry.is_dir # InodeAt(backend, entry.inode).is_dir
                THEN <<Finding("dirent declara tipo incorrecto", ino_id, 0,
                               entry.name)>>
                ELSE << >>)
        OfInode(ino_id) ==
            IF InodeAt(backend, ino_id).is_dir
            THEN LET entries == read_dir(backend, ino_id)
                 IN  Flatten([k \in 1..Len(entries) |->
                                 OfEntry(ino_id, entries[k])])
            ELSE << >>
        each == Flatten([i \in 1..n_inodes |-> OfInode(i - 1)])
    IN  IF \E k \in 1..Len(report.errors) :
              report.errors[k].msg = "Superblock: root_inode"
        THEN report
        ELSE IF sb.root_inode >= n_inodes
        THEN Push(report, <<Finding("Root inode fuera de rango", 0, 0, "")>>,
                  FALSE, TRUE)
        ELSE IF ~InodeAt(backend, sb.root_inode).is_dir
        THEN Push(report,
                  <<Finding("Root inode no es un directorio", 0, 0, "")>>
                     \o each,
                  FALSE, TRUE)
        ELSE Push(report, each, FALSE, FALSE)

\* check_bitmap_global that looks at direct pointers only.
check_bitmap_global_direct_only(backend, sb, report) ==
    LET bitmap == backend.bitmap
        used_by_inodes(block) ==
            \E i \in 1..Len(backend.inodes) :
                \E k \in 1..Len(backend.inodes[i].direct) :
                    backend.inodes[i].direct[k] = block
        found ==
            Flatten([i \in 1..sb.num_blocks |->
                LET block == i - 1 IN
                (IF bitmap[i] /\ ~used_by_inodes(block)
                 THEN <<Finding("Bitmap marca usado", block, 0, "")>>
                 ELSE << >>)
                \o (IF ~bitmap[i] /\ used_by_inodes(block)
                    THEN <<Finding("Bitmap marca libre", block, 0, "")>>
                    ELSE << >>)])
    IN  IF Len(bitmap) # sb.num_blocks
        THEN Push(report,
                  <<Finding("Bitmap tiene tamano incorrecto", Len(bitmap),
                            sb.num_blocks, "")>>,
                  TRUE, FALSE)
        ELSE Push(report, found, Len(found) > 0, FALSE)

check_bitmap_global(backend, sb, report) ==
    LET bitmap == backend.bitmap
        used_by_inodes(block) ==
            \E i \in 1..Len(backend.inodes) :
                LET ptrs == PointerList(backend.inodes[i])
                IN  \E k \in 1..Len(ptrs) :
                        ptrs[k].blk < sb.num_blocks /\ ptrs[k].blk = block
        found ==
            Flatten([i \in 1..sb.num_blocks |->
                LET block == i - 1 IN
                (IF bitmap[i] /\ ~used_by_inodes(block)
                 THEN <<Finding("Bitmap marca usado", block, 0, "")>>
                 ELSE << >>)
                \o (IF ~bitmap[i] /\ used_by_inodes(block)
                    THEN <<Finding("Bitmap marca libre", block, 0, "")>>
                    ELSE << >>)])
    IN  IF Len(bitmap) # sb.num_blocks
        THEN Push(report,
                  <<Finding("Bitmap tiene tamano incorrecto", Len(bitmap),
                            sb.num_blocks, "")>>,
                  TRUE, FALSE)
        ELSE Push(report, found, Len(found) > 0, FALSE)

check_orphan_inodes(backend, report) ==
    LET sb == backend.superblock
        n_inodes == Len(backend.inodes)
        referenced(ino) ==
            \/ sb.root_inode < n_inodes /\ ino = sb.root_inode
            \/ \E d \in 0..(n_inodes - 1) :
                  /\ InodeAt(backend, d).is_dir
                  /\ \E k \in 1..Len(read_dir(backend, d)) :
                        read_dir(backend, d)[k].inode = ino
        found ==
            Flatten([i \in 1..n_inodes |->
                IF ~referenced(i - 1)
                THEN <<Finding("huerfano", i - 1, 0, "")>> ELSE << >>])
    IN  Push(report, found, FALSE, Len(found) > 0)

\* ---- the backends fsck is run on

FsckInodes == 3
FsckBlocks == 3

Dirent(inode, name, is_dir) == [inode |-> inode, name |-> name, is_dir |-> is_dir]

PlainInode(is_dir) ==
    [is_dir |-> is_dir, size |-> 0, direct |-> << >>,
     indirect1 |-> << >>, indirect2 |-> << >>]

\* A file, or a directory with no entry or one entry: to an inode (the index
\* FsckInodes is past the end), or a nameless entry of the wrong type.
TreeShapes ==
    {[is_dir |-> FALSE, entries |-> << >>], [is_dir |-> TRUE, entries |-> << >>]}
    \cup {[is_dir |-> TRUE, entries |-> <<Dirent(j, "x", TRUE)>>] :
             j \in 0..FsckInodes}
    \cup {[is_dir |-> TRUE, entries |-> <<Dirent(0, "", FALSE)>>]}

\* Backends that differ in their directory tree, root pointer and inode
\* count field.
TreeBackends ==
    {[superblock |-> [magic |-> 4660, num_inodes |-> ni,
                      num_blocks |-> FsckBlocks, root_inode |-> root],
      inodes |-> [i \in 1..FsckInodes |-> PlainInode(shape[i].is_dir)],
      dirs |-> [i \in 1..FsckInodes |-> shape[i].entries],
      bitmap |-> [b \in 1..FsckBlocks |-> FALSE]] :
        root \in {0, FsckInodes}, ni \in {FsckInodes, FsckInodes - 1},
        shape \in [1..FsckInodes -> TreeShapes]}

\* The pointers of one inode: none, direct ones (FsckBlocks is past the
\* end), one indirect pointer, or a direct and an indirect pointer to the
\* same block.
PointerShapes ==
    {[direct |-> d, indirect1 |-> << >>, indirect2 |-> << >>] :
        d \in {<< >>, <<0, FsckBlocks>>, <<1, 1>>}}
    \cup {[direct |-> << >>, indirect1 |-> <<1>>, indirect2 |-> << >>],
          [direct |-> << >>, indirect1 |-> << >>,
           indirect2 |-> <<FsckBlocks - 1>>],
          [direct |-> <<1>>, indirect1 |-> <<1>>, indirect2 |-> << >>]}

\* Backends that differ in their magic, pointers, bitmap and block count.
BlockBackends ==
    {[superblock |-> [magic |-> magic, num_inodes |-> FsckInodes,
                      num_blocks |-> nb, root_inode |-> 0],
      inodes |-> [i \in 1..FsckInodes |->
                     [is_dir |-> i = 1, size |-> 0,
                      direct |-> IF i = 1 THEN << >> ELSE ptr[i].direct,
                      indirect1 |-> IF i = 1 THEN << >> ELSE ptr[i].indirect1,
                      indirect2 |-> IF i = 1 THEN << >> ELSE ptr[i].indirect2]],
      dirs |-> [i \in 1..FsckInodes |-> << >>],
      bitmap |-> bitmap] :
        magic \in {4660, 0}, nb \in {FsckBlocks, FsckBlocks + 1},
        ptr \in [2..FsckInodes -> PointerShapes],
        bitmap \in [1..FsckBlocks -> BOOLEAN]}

InitFsck ==
    /\ disk \in TreeBackends \cup BlockBackends
    /\ inner = mount_from_folder(Mkfs(TotalBlocks, BlockSize, InodeSize)).val
    /\ lock = [writer |-> 0, readers |-> {}]
    /\ pc = [p \in Procs |-> IF p = 1 THEN "fsck_superblock" ELSE "idle"]
    /\ loc = [p \in Procs |-> IF p = 1 THEN [report |-> NewReport] ELSE NoLoc]
    /\ reply = [p \in Procs |-> NoReply]

\* ---- run_fsck, one step per pass

fsck_superblock(p) ==
    /\ pc[p] = "fsck_superblock"
    /\ loc' = [loc EXCEPT ![p] =
                  [report |-> check_superblock(disk, loc[p].report)]]
    /\ pc' = [pc EXCEPT ![p] = "fsck_inodes_basic"]
    /\ UNCHANGED <<disk, inner, lock, reply>>

fsck_inodes_basic(p) ==
    /\ pc[p] = "fsck_inodes_basic"
    /\ loc' = [loc EXCEPT ![p] =
                  [report |-> check_inodes_basic(disk, loc[p].report)]]
    /\ pc' = [pc EXCEPT ![p] = "fsck_blocks_global"]
    /\ UNCHANGED <<disk, inner, lock, reply>>

fsck_blocks_global(p) ==
    /\ pc[p] = "fsck_blocks_global"
    /\ LET sb == disk.superblock
       IN  loc' = [loc EXCEPT ![p] =
                      [report |-> check_blocks_global(disk, sb, loc[p].report),
                       sb |-> sb]]
    /\ pc' = [pc EXCEPT ![p] = "fsck_dirs"]
    /\ UNCHANGED <<disk, inner, lock, reply>>

fsck_dirs(p) ==
    /\ pc[p] = "fsck_dirs"
    /\ loc' = [loc EXCEPT ![p].report = check_dirs(disk, loc[p].report)]
    /\ pc' = [pc EXCEPT ![p] = "fsck_bitmap_global"]
    /\ UNCHANGED <<disk, inner, lock, reply>>

fsck_bitmap_global(p) ==
    /\ pc[p] = "fsck_bitmap_global"
    /\ loc' = [loc EXCEPT ![p].report =
                  check_bitmap_global(disk, loc[p].sb, loc[p].report)]
    /\ pc' = [pc EXCEPT ![p] = "fsck_orphan_inodes"]
    /\ UNCHANGED <<disk, inner, lock, reply>>

fsck_orphan_inodes(p) ==
    /\ pc[p] = "fsck_orphan_inodes"
    /\ loc' = [loc EXCEPT ![p].report =
                  check_orphan_inodes(disk, loc[p].report)]
    /\ pc' = [pc EXCEPT ![p] = "fsck_done"]
    /\ UNCHANGED <<disk, inner, lock, reply>>

NextFsck ==
    \E p \in {1} :
        \/ fsck_superblock(p)
        \/ fsck_inodes_basic(p)
        \/ fsck_blocks_global(p)
        \/ fsck_dirs(p)
        \/ fsck_bitmap_global(p)
        \/ fsck_orphan_inodes(p)

SpecFsck == InitFsck /\ [][NextFsck]_vars

\* ---------------------------------------------- fsck, the on-disk backend

\* QrfsBackend::read_block_raw: the block file's bytes, or None.
backend_read_block_raw(d, block_index) == read_fs_block(d, block_index)

\* QrfsBackend::load_superblock_disk: block 0 as a SuperblockDisk, or None.
backend_load_superblock_disk(d) ==
    IF NumEntries = 0 \/ ~files_open(d, 0, 1) THEN Err ELSE Ok(d.sb)

\* QrfsBackend::load_inode_disk: inode record ino of the table, or None.
backend_load_inode_disk(d, ino, sb) ==
    IF ino = 0 \/ ino > sb.max_inodes THEN Err
    ELSE IF sb.inode_table_start + sb.inode_table_blocks > NumEntries THEN Err
    ELSE IF ~files_open(d, sb.inode_table_start, sb.inode_table_blocks) THEN Err
    ELSE IF (ino - 1) * InodeSize + InodeSize > sb.inode_table_blocks * BlockSize
    THEN Err
    ELSE IF ino > Len(d.inodes) THEN Ok(FreeInodeDisk)
    ELSE Ok(d.inodes[ino])

\* load_superblock: the fsck view of block 0; the view's magic is the value
\* check_superblock expects whenever block 0 could be read.
backend_load_superblock(d) ==
    LET sb == backend_load_superblock_disk(d)
    IN  IF sb.ok
        THEN [magic |-> 4660, num_inodes |-> sb.val.max_inodes + 1,
              num_blocks |-> sb.val.total_blocks,
              root_inode |-> sb.val.root_inode]
        ELSE [magic |-> 0, num_inodes |-> 0, num_blocks |-> 0, root_inode |-> 0]

\* load_all_inodes: a dummy at index 0, then one Inode per inode record;
\* all twelve direct pointers are kept, zero or not.
backend_load_all_inodes(d) ==
    LET sb == backend_load_superblock_disk(d)
        dummy == [is_dir |-> FALSE, size |-> 0, direct |-> << >>,
                  indirect1 |-> << >>, indirect2 |-> << >>]
        OfIno(ino) ==
            LET disk_inode == backend_load_inode_disk(d, ino, sb.val)
            IN  IF disk_inode.ok
                THEN [is_dir |-> disk_inode.val.file_type = 2,
                      size |-> disk_inode.val.size,
                      direct |-> disk_inode.val.direct_blocks,
                      indirect1 |->
                          IF disk_inode.val.indirect_block # 0
                          THEN <<disk_inode.val.indirect_block>> ELSE << >>,
                      indirect2 |->
                          IF disk_inode.val.double_indirect_block # 0
                          THEN <<disk_inode.val.double_indirect_block>>
                          ELSE << >>]
                ELSE dummy
    IN  IF ~sb.ok THEN << >>
        ELSE <<dummy>> \o [ino \in 1..sb.val.max_inodes |-> OfIno(ino)]

\* A directory entry on disk: the inode number, then the name (one byte
\* here); the names a byte stands for, "?" for a byte that is no character.
DirEntrySize == 2
NameOfByte(b) ==
    IF b = 0 THEN "" ELSE IF b = 1 THEN "a" ELSE IF b = 2 THEN "b" ELSE "?"

\* read_root_dir: the entries of the root's first block, skipping entries
\* with inode 0 or an empty name.
backend_read_root_dir(d, sb) ==
    LET inode == backend_load_inode_disk(d, sb.root_inode, sb)
        block == inode.val.direct_blocks[1]
        raw == backend_read_block_raw(d, block)
        buf == IF raw.ok THEN raw.val ELSE << >>
        OfEntry(e) ==
            LET entry_inode == buf[(e - 1) * DirEntrySize + 1]
                name == NameOfByte(buf[(e - 1) * DirEntrySize + 2])
            IN  IF entry_inode = 0 \/ name = "" THEN << >>
                ELSE <<Dirent(entry_inode, name, TRUE)>>
    IN  IF sb.root_inode = 0 THEN << >>
        ELSE IF ~inode.ok THEN << >>
        ELSE IF inode.val.file_type # 2 THEN << >>
        ELSE IF block = 0 THEN << >>
        ELSE Flatten([e \in 1..(Len(buf) \div DirEntrySize) |-> OfEntry(e)])

\* QrfsBackend::read_dir: only the root directory is read.
backend_read_dir(d, ino) ==
    LET sb == backend_load_superblock_disk(d)
    IN  IF ~sb.ok THEN << >>
        ELSE IF ino = sb.val.root_inode THEN backend_read_root_dir(d, sb.val)
        ELSE << >>

\* load_block_bitmap: one flag per block of total_blocks, from the bitmap
\* region; empty when the region cannot be read.
backend_load_block_bitmap(d) ==
    LET sb == backend_load_superblock_disk(d)
        total_blocks == sb.val.total_blocks
        needed_bytes == (total_blocks + 7) \div 8
        buf == SubSeq(d.bitmap, 1, Min(needed_bytes, Len(d.bitmap)))
    IN  IF ~sb.ok THEN << >>
        ELSE IF sb.val.free_bitmap_start + sb.val.free_bitmap_blocks > NumEntries
        THEN << >>
        ELSE IF ~files_open(d, sb.val.free_bitmap_start,
                            sb.val.free_bitmap_blocks) THEN << >>
        ELSE [i \in 1..total_blocks |->
                 LET byte == (i - 1) \div 8
                     bit == (i - 1) % 8
                 IN  byte < Len(buf) /\ (buf[byte + 1] \div (2 ^ bit)) % 2 = 1]

\* What the passes of run_fsck load from a QrfsBackend on folder d.
QrfsBackend(d) ==
    [superblock |-> backend_load_superblock(d),
     inodes |-> backend_load_all_inodes(d),
     dirs |-> [i \in 1..Len(backend_load_all_inodes(d)) |->
                  backend_read_dir(d, i - 1)],
     bitmap |-> backend_load_block_bitmap(d),
     image |-> d]

\* ------------------------------------------------- failing block files

\* Block file b stops being openable (removed, or its permissions changed).
io_fault(b) ==
    /\ b \notin disk.bad
    /\ disk' = [disk EXCEPT !.bad = @ \cup {b}]
    /\ UNCHANGED <<inner, lock, pc, loc, reply>>

\* One thread serves requests while block files fail.
NextIO ==
    \/ \E p \in {1} :
           Step(p, {ROOT_INO}, {"a"}, {2}, {<<0, BlockSize + 1>>}, {<<0, 1>>})
    \/ \E b \in 0..(TotalBlocks - 1) : io_fault(b)

SpecIO == Init /\ [][NextIO]_vars

\* ------------------------------------------- a session on a populated image

\* The data region [data_blocks_start, total_blocks).
DataRegion(sb) == sb.data_blocks_start..(sb.total_blocks - 1)

\* Folders mount_from_folder accepts that hold one file, inode 2: every
\* choice of its first direct pointers among 0 and the data blocks, and of
\* its size.  A pointed-to block b holds the bytes 10 b + 1, 10 b + 2, ..;
\* the bitmap and free_blocks account for the pointed-to blocks.
ImageSlots == 1..(Cardinality(DataRegion(Mkfs(TotalBlocks, BlockSize,
                                              InodeSize).sb)) + 1)
ImageSizes ==
    {BlockSize - 1, BlockSize + 2, 2 * BlockSize + 1,
     BlockSize * Cardinality(ImageSlots)}
ImageBlock(b) == [i \in 1..BlockSize |-> 10 * b + i]

RECURSIVE MarkBlocks(_, _)
MarkBlocks(bitmap, S) ==
    IF S = {} THEN bitmap
    ELSE LET b == SetMin(S)
         IN  MarkBlocks(bitmap_set(bitmap, b, TRUE), S \ {b})

Image(direct, size) ==
    LET fresh == Mkfs(TotalBlocks, BlockSize, InodeSize)
        held == {direct[i] : i \in ImageSlots} \ {0}
    IN  [fresh EXCEPT
            !.sb.free_blocks = @ - Cardinality(held),
            !.sb.free_inodes = @ - 1,
            !.inodes[2] =
                [NewFileInodeDisk(2) EXCEPT
                    !.size = size,
                    !.direct_blocks =
                        [i \in 1..NDirect |->
                            IF i \in ImageSlots THEN direct[i] ELSE 0]],
            !.bitmap = MarkBlocks(@, held),
            !.blocks = [b \in DOMAIN @ |->
                           IF b \in held THEN ImageBlock(b) ELSE @[b]]]

Images ==
    {Image(direct, size) :
        direct \in [ImageSlots ->
                       {0} \cup DataRegion(Mkfs(TotalBlocks, BlockSize,
                                                InodeSize).sb)],
        size \in ImageSizes}

InitRead ==
    /\ disk \in Images
    /\ inner = mount_from_folder(disk).val
    /\ lock = [writer |-> 0, readers |-> {}]
    /\ pc = [p \in Procs |-> "idle"]
    /\ loc = [p \in Procs |-> NoLoc]
    /\ reply = [p \in Procs |-> NoReply]

\* read() requests of the session: <<offset, size>>.
ImageReadShapes ==
    {<<o, n>> : o \in {0, 2, BlockSize, BlockSize + 1},
                n \in {1, BlockSize, 2 * BlockSize}}

\* One thread reads the image's file (from disk) and a file it creates and
\* writes (from memory).
NextRead ==
    \E p \in {1} :
        \/ create_begin(p, ROOT_INO, "a")
        \/ create_write_inode(p)
        \/ create_write_superblock(p)
        \/ write_begin(p, 3, 0, Payload(BlockSize + 1))
        \/ alloc_write_first(p)
        \/ alloc_write_second(p)
        \/ write_data(p)
        \/ write_inode(p)
        \/ \E ino \in {2, 3}, r \in ImageReadShapes :
               read_begin(p, ino, r[1], r[2])
        \/ read_snapshot(p)
        \/ read_load_inode(p)
        \/ read_blocks(p)
        \/ ret(p)

SpecRead == InitRead /\ [][NextRead]_vars

\* ----------------------------------------------------------------- mount

\* The folders mount is run on: a fresh or a populated image whose block 0
\* has the right or a wrong magic and version.
MountImages ==
    {[img EXCEPT !.sb.magic = magic, !.sb.version = version] :
        img \in Images \cup {Mkfs(TotalBlocks, BlockSize, InodeSize)},
        magic \in {QRFS_MAGIC, 0}, version \in {QRFS_VERSION, QRFS_VERSION + 1}}

\* No QrfsFilesystem has been built.
Unmounted == [mounted |-> FALSE]

InitMount ==
    /\ disk \in MountImages
    /\ inner = Unmounted
    /\ lock = [writer |-> 0, readers |-> {}]
    /\ pc = [p \in Procs |-> IF p = 1 THEN "mount" ELSE "idle"]
    /\ loc = [p \in Procs |-> NoLoc]
    /\ reply = [p \in Procs |-> NoReply]

\* main of mount_qrfs: mount_from_folder builds the filesystem state, or
\* fails and main returns the error before FUSE is started.
mount(p) ==
    /\ pc[p] = "mount"
    /\ LET fs == mount_from_folder(disk)
       IN  IF fs.ok
           THEN /\ inner' = fs.val
                /\ pc' = [pc EXCEPT ![p] = "mounted"]
           ELSE /\ inner' = inner
                /\ pc' = [pc EXCEPT ![p] = "mount_failed"]
    /\ UNCHANGED <<disk, lock, loc, reply>>

NextMount == \E p \in {1} : mount(p)

SpecMount == InitMount /\ [][NextMount]_vars

\* ------------------------------------------------------ fsck_qrfs, main

\* read_superblock: block 0 as a SuperblockDisk, or an error.
read_superblock(d) ==
    IF ~files_open(d, 0, 1) THEN Err ELSE Ok(d.sb)

\* The block files read to collect total_bytes bytes from block start on.
BlocksRead(start, total_bytes) ==
    start..(start + (total_bytes + BlockSize - 1) \div BlockSize - 1)

\* read_inode_table: max_inodes inode records read from inode_table_start
\* on, or an error when a block file is missing or unreadable.
read_inode_table(d, sb) ==
    LET blocks == BlocksRead(sb.inode_table_start, sb.max_inodes * InodeSize)
    IN  IF \E b \in blocks : b >= NumEntries \/ b \in d.bad THEN Err
        ELSE Ok([i \in 1..sb.max_inodes |->
                    IF i <= Len(d.inodes) THEN d.inodes[i] ELSE FreeInodeDisk])

\* read_bitmap: ceil(total_blocks / 8) bytes read from free_bitmap_start on.
read_bitmap(d, sb) ==
    LET bitmap_bytes == (sb.total_blocks + 7) \div 8
        blocks == BlocksRead(sb.free_bitmap_start, bitmap_bytes)
    IN  IF \E b \in blocks : b >= NumEntries \/ b \in d.bad THEN Err
        ELSE Ok([i \in 1..bitmap_bytes |->
                    IF i <= Len(d.bitmap) THEN d.bitmap[i] ELSE 0])

bit_is_set(bitmap, block) ==
    LET byte == block \div 8
        bit == block % 8
    IN  IF byte >= Len(bitmap) THEN FALSE
        ELSE (bitmap[byte + 1] \div (2 ^ bit)) % 2 = 1

\* 1 when the condition holds: one more error, or one more warning.
Count(cond) == IF cond THEN 1 ELSE 0

\* A populated image: inode 2 is a file holding the first data block.
OneFileImage ==
    Image([i \in ImageSlots |->
              IF i = 1
              THEN Mkfs(TotalBlocks, BlockSize, InodeSize).sb.data_blocks_start
              ELSE 0],
          BlockSize - 1)

\* The folders fsck_qrfs is run on: a fresh or a populated image whose
\* block 0 has fields replaced by hostile values, with block 0 or the first
\* inode table block unreadable or not.
FsckQrfsImages ==
    {[img EXCEPT !.sb.magic = magic,
                 !.sb.root_inode = root,
                 !.sb.free_blocks = IF fb THEN TotalBlocks + 1 ELSE @,
                 !.sb.free_inodes = IF fi THEN @ + 1 ELSE @,
                 !.sb.data_blocks_start = IF dbs THEN TotalBlocks + 1 ELSE @,
                 !.sb.max_inodes =
                     IF mi THEN (TotalBlocks * BlockSize) \div InodeSize + 1
                     ELSE @,
                 !.sb.inode_table_start = IF its THEN TotalBlocks ELSE @,
                 !.sb.free_bitmap_start = IF fbs THEN TotalBlocks ELSE @,
                 !.sb.total_blocks = IF tb THEN 0 ELSE @,
                 !.bad = bad] :
        img \in {Mkfs(TotalBlocks, BlockSize, InodeSize), OneFileImage},
        magic \in {QRFS_MAGIC, 0},
        root \in {0, ROOT_INO,
                  Mkfs(TotalBlocks, BlockSize, InodeSize).sb.max_inodes + 1},
        fb \in BOOLEAN, fi \in BOOLEAN, dbs \in BOOLEAN, mi \in BOOLEAN,
        its \in BOOLEAN, fbs \in BOOLEAN, tb \in BOOLEAN,
        bad \in {{}, {0}, {1}}}

\* The checker is built with or without overflow checks (a debug or a
\* release build): an underflowing subtraction panics or wraps around.
InitFsckQrfs ==
    /\ disk \in FsckQrfsImages
    /\ inner = Unmounted
    /\ lock = [writer |-> 0, readers |-> {}]
    /\ pc = [p \in Procs |-> IF p = 1 THEN "fsckq_start" ELSE "idle"]
    /\ \E checks \in BOOLEAN :
          loc = [p \in Procs |->
                    IF p = 1
                    THEN [overflow_checks |-> checks, errors |-> 0,
                          warnings |-> 0]
                    ELSE NoLoc]
    /\ reply = [p \in Procs |-> NoReply]

\* Step 2: block 0 is read; main returns the error if that fails.
fsckq_read_superblock(p) ==
    /\ pc[p] = "fsckq_start"
    /\ LET sb == read_superblock(disk)
       IN  IF NumEntries = 0 \/ ~sb.ok
           THEN /\ pc' = [pc EXCEPT ![p] = "fsckq_aborted"]
                /\ loc' = loc
           ELSE /\ pc' = [pc EXCEPT ![p] = "fsckq_check_superblock"]
                /\ loc' = [loc EXCEPT ![p] =
                              [overflow_checks |-> loc[p].overflow_checks,
                               errors |-> 0, warnings |-> 0, sb |-> sb.val]]
    /\ UNCHANGED <<disk, inner, lock, reply>>

\* Step 3: the checks on the superblock's fields, each one critical error.
fsckq_check_superblock(p) ==
    /\ pc[p] = "fsckq_check_superblock"
    /\ LET sb == loc[p].sb
           max_block == IF sb.total_blocks >= 1 THEN sb.total_blocks - 1 ELSE 0
           errors ==
               Count(sb.magic # QRFS_MAGIC)
               + Count(sb.version # QRFS_VERSION)
               + Count(sb.block_size # BlockSize)
               + Count(sb.total_blocks = 0 \/ sb.total_blocks > NumEntries)
               + Count(sb.inode_table_start = 0)
               + Count(sb.inode_table_start > max_block
                       \/ sb.inode_table_start + sb.inode_table_blocks
                             > sb.total_blocks)
               + Count(sb.free_bitmap_start > max_block
                       \/ sb.free_bitmap_start + sb.free_bitmap_blocks
                             > sb.total_blocks)
               + Count(sb.data_blocks_start > max_block)
               + Count(sb.root_inode = 0 \/ sb.root_inode > sb.max_inodes)
       IN  loc' = [loc EXCEPT ![p].errors = errors]
    /\ pc' = [pc EXCEPT ![p] = "fsckq_read_tables"]
    /\ UNCHANGED <<disk, inner, lock, reply>>

\* Step 4: the inode table and the bitmap are read; main returns the error
\* if either read fails.
fsckq_read_tables(p) ==
    /\ pc[p] = "fsckq_read_tables"
    /\ LET inodes == read_inode_table(disk, loc[p].sb)
           bitmap == read_bitmap(disk, loc[p].sb)
       IN  IF ~inodes.ok \/ ~bitmap.ok
           THEN /\ pc' = [pc EXCEPT ![p] = "fsckq_aborted"]
                /\ loc' = loc
           ELSE /\ pc' = [pc EXCEPT ![p] = "fsckq_check_inodes"]
                /\ loc' = [loc EXCEPT ![p] =
                              [overflow_checks |-> loc[p].overflow_checks,
                               errors |-> loc[p].errors,
                               warnings |-> loc[p].warnings,
                               sb |-> loc[p].sb,
                               inodes |-> inodes.val, bitmap |-> bitmap.val]]
    /\ UNCHANGED <<disk, inner, lock, reply>>

\* Step 5: the checks on the inodes.  root_inode - 1 underflows for
\* root_inode = 0: a panic with overflow checks, an index past every inode
\* without.
fsckq_check_inodes(p) ==
    /\ pc[p] = "fsckq_check_inodes"
    /\ LET sb == loc[p].sb
           inodes == loc[p].inodes
           root_found == sb.root_inode >= 1 /\ sb.root_inode <= Len(inodes)
           used_inodes ==
               Cardinality({i \in 1..Len(inodes) :
                               inodes[i].id # 0 /\ inodes[i].file_type # 0})
       IN  IF sb.root_inode = 0 /\ loc[p].overflow_checks
           THEN /\ pc' = [pc EXCEPT ![p] = "fsckq_panicked"]
                /\ loc' = loc
           ELSE /\ pc' = [pc EXCEPT ![p] = "fsckq_check_bitmap"]
                /\ loc' = [loc EXCEPT
                      ![p].errors =
                          @ + Count(~root_found
                                    \/ inodes[sb.root_inode].file_type # 2),
                      ![p].warnings =
                          @ + Count(Len(inodes) # sb.max_inodes)
                            + Count(used_inodes + sb.free_inodes
                                       # sb.max_inodes)]
    /\ UNCHANGED <<disk, inner, lock, reply>>

\* Step 6: the checks on the bitmap.  total_blocks - meta_blocks and
\* data_blocks - free_blocks underflow for hostile fields: a panic with
\* overflow checks; without, the wrapped sum equals total_blocks -
\* free_blocks whenever that is not negative, and no count of bits otherwise.
fsckq_check_bitmap(p) ==
    /\ pc[p] = "fsckq_check_bitmap"
    /\ LET sb == loc[p].sb
           bitmap == loc[p].bitmap
           total_blocks == sb.total_blocks
           used_bits ==
               Cardinality({b \in 0..(total_blocks - 1) : bit_is_set(bitmap, b)})
           meta_blocks == sb.data_blocks_start
           underflow ==
               \/ total_blocks < meta_blocks
               \/ total_blocks - meta_blocks < sb.free_blocks
       IN  IF Len(bitmap) * 8 < total_blocks
           THEN /\ pc' = [pc EXCEPT ![p] = "fsckq_result"]
                /\ loc' = [loc EXCEPT ![p].errors = @ + 1]
           ELSE IF underflow /\ loc[p].overflow_checks
           THEN /\ pc' = [pc EXCEPT ![p] = "fsckq_panicked"]
                /\ loc' = loc
           ELSE /\ pc' = [pc EXCEPT ![p] = "fsckq_result"]
                /\ loc' = [loc EXCEPT ![p].warnings =
                              @ + Count(used_bits
                                           # total_blocks - sb.free_blocks)]
    /\ UNCHANGED <<disk, inner, lock, reply>>

\* The final result, were a warning to fail the run as an error does.
fsckq_result_warnings_fail(p) ==
    /\ pc[p] = "fsckq_result"
    /\ pc' = [pc EXCEPT ![p] =
                 IF loc[p].errors + loc[p].warnings = 0
                 THEN "fsckq_ok" ELSE "fsckq_failed"]
    /\ UNCHANGED <<disk, inner, lock, loc, reply>>

\* The final result is printed and main returns Ok or an error.
fsckq_result(p) ==
    /\ pc[p] = "fsckq_result"
    /\ pc' = [pc EXCEPT ![p] =
                 IF loc[p].errors = 0 THEN "fsckq_ok" ELSE "fsckq_failed"]
    /\ UNCHANGED <<disk, inner, lock, loc, reply>>

NextFsckQrfs ==
    \E p \in {1} :
        \/ fsckq_read_superblock(p)
        \/ fsckq_check_superblock(p)
        \/ fsckq_read_tables(p)
        \/ fsckq_check_inodes(p)
        \/ fsckq_check_bitmap(p)
        \/ fsckq_result(p)

SpecFsckQrfs == InitFsckQrfs /\ [][NextFsckQrfs]_vars

\* ------------------------------------------- run_fsck on a folder of blocks

\* The folders fsck is run on: a fresh or a populated image, with the magic
\* of block 0 right or wrong, and block 0 readable or not.
FsckImages ==
    {[img EXCEPT !.sb.magic = magic, !.bad = bad] :
        img \in Images \cup {Mkfs(TotalBlocks, BlockSize, InodeSize)},
        magic \in {QRFS_MAGIC, 0}, bad \in {{}, {0}}}

InitFsckDisk ==
    /\ \E img \in FsckImages : disk = QrfsBackend(img)
    /\ inner = mount_from_folder(Mkfs(TotalBlocks, BlockSize, InodeSize)).val
    /\ lock = [writer |-> 0, readers |-> {}]
    /\ pc = [p \in Procs |-> IF p = 1 THEN "fsck_superblock" ELSE "idle"]
    /\ loc = [p \in Procs |-> IF p = 1 THEN [report |-> NewReport] ELSE NoLoc]
    /\ reply = [p \in Procs |-> NoReply]

SpecFsckDisk == InitFsckDisk /\ [][NextFsck]_vars

\* ------------------------------------------------------- run_fsck, twice

\* A run that appends to the report an earlier run returned.
CarriedReport(returned) == returned

\* The report a run of run_fsck starts from, whatever an earlier run
\* returned: FsckReport::new().
StartReport(returned) == NewReport

\* run_fsck returns its report, and is called again on the same backend.
fsck_rerun(p) ==
    /\ pc[p] = "fsck_done"
    /\ reply[p] = NoReply
    /\ reply' = [reply EXCEPT ![p] =
                    [kind |-> "report", errno |-> "", data |-> loc[p].report]]
    /\ loc' = [loc EXCEPT ![p] = [report |-> StartReport(loc[p].report)]]
    /\ pc' = [pc EXCEPT ![p] = "fsck_superblock"]
    /\ UNCHANGED <<disk, inner, lock>>

InitFsckTwice == InitFsck \/ InitFsckDisk

NextFsckTwice ==
    \/ NextFsck
    \/ \E p \in {1} : fsck_rerun(p)

SpecFsckTwice == InitFsckTwice /\ [][NextFsckTwice]_vars

\* ------------------------------------------------------------- properties

\* Number of 0 bits in the data region of the on-disk bitmap.
FreeBits(d) ==
    Cardinality({b \in DataRegion(d.sb) :
                    ~bitmap_test(load_bitmap(d, d.sb).val, b)})

\* The block pointers an InodeDisk record holds.
Pointers(inode) ==
    {inode.direct_blocks[i] : i \in 1..NDirect}
        \cup {inode.indirect_block, inode.double_indirect_block}

\* The slots of the on-disk inode table.
Slots == 1..disk.sb.max_inodes

\* No handler is between two of its steps.
Quiescent == \A p \in Procs : pc[p] \in {"idle", "done"}

\* Handler positions inside alloc_block, inside a mutating handler, and at
\* the disk reads of read.
AllocPcs == {"alloc_write_first", "alloc_write_second"}
MutPcs ==
    {"create_write_inode", "create_write_superblock", "alloc_write_first",
     "alloc_write_second", "write_data", "write_inode"}
ReadDiskPcs == {"read_load_inode", "read_blocks"}

\* C1: after completed operations on a fresh filesystem, bitmap bit b is 1
\* exactly when b is a metadata block or some on-disk inode record holds b
\* in a block pointer.
C1_BitmapIffReferenced ==
    Quiescent =>
        \A b \in 0..(disk.sb.total_blocks - 1) :
            bitmap_test(load_bitmap(disk, disk.sb).val, b)
                <=> \/ b < disk.sb.data_blocks_start
                    \/ \E i \in Slots : b \in Pointers(disk.inodes[i])

\* C2: every non-zero block pointer of an on-disk inode record lies in the
\* data region, and no non-zero block is held by two inode records.
C2_PointersValidAndUnique ==
    \A i \in Slots :
        \A b \in Pointers(disk.inodes[i]) \ {0} :
            /\ b \in DataRegion(disk.sb)
            /\ \A j \in Slots \ {i} : b \notin Pointers(disk.inodes[j])

\* Two inode records each hold a block.
C2_Witness ==
    \E i, j \in Slots :
        /\ i # j
        /\ disk.inodes[i].direct_blocks[1] # 0
        /\ disk.inodes[j].direct_blocks[1] # 0

\* C3: a successful alloc_block returns the lowest block of the data region
\* whose bit was 0, sets exactly that bit (all others unchanged) in the
\* bitmap it persists, and lowers the in-memory and the superblock
\* free-block counter by one, in memory and then on disk.
C3_AllocLowestFree ==
    [][\A p \in Procs :
        /\ (pc[p] = "idle" /\ pc'[p] = "alloc_write_first") =>
              LET old == load_bitmap(disk, disk.sb).val
                  b == loc'[p].b
              IN  /\ b \in DataRegion(disk.sb)
                  /\ ~bitmap_test(old, b)
                  /\ \A c \in DataRegion(disk.sb) :
                         c < b => bitmap_test(old, c)
                  /\ \A c \in 0..(disk.sb.total_blocks - 1) :
                         bitmap_test(loc'[p].bitmap, c)
                             <=> (c = b \/ bitmap_test(old, c))
                  /\ inner'.free_blocks = inner.free_blocks - 1
                  /\ inner'.superblock.free_blocks
                         = inner.superblock.free_blocks - 1
        /\ (pc[p] = "alloc_write_second" /\ pc'[p] = "write_data") =>
              /\ load_bitmap(disk', disk'.sb).val = loc[p].bitmap
              /\ disk'.sb.free_blocks = inner.superblock.free_blocks
              /\ loc'[p].disk_inode.direct_blocks[1] = loc[p].b
      ]_vars

\* An allocation has returned a block that is not the first of the data
\* region.
C3_Witness ==
    \E p \in Procs :
        /\ pc[p] = "write_data"
        /\ loc[p].b > disk.sb.data_blocks_start

\* C4: outside alloc_block, the in-memory free-block counter, the
\* superblock's free_blocks (in memory and on disk) and the number of 0 bits
\* of the bitmap's data region are equal.
C4_CountersAgree ==
    (\A p \in Procs : pc[p] \notin AllocPcs) =>
        /\ inner.free_blocks = FreeBits(disk)
        /\ inner.superblock.free_blocks = FreeBits(disk)
        /\ disk.sb.free_blocks = FreeBits(disk)

\* Two allocations have completed.
C4_Witness ==
    /\ Quiescent
    /\ FreeBits(disk) + 2 <= Cardinality(DataRegion(disk.sb))

\* C5: in every on-disk state, also between the two disk writes of
\* alloc_block, the superblock's free_blocks equals the number of 0 bits of
\* the on-disk bitmap's data region or is one greater; it is never smaller.
C5_BitmapBeforeSuperblock ==
    \/ disk.sb.free_blocks = FreeBits(disk)
    \/ disk.sb.free_blocks = FreeBits(disk) + 1

\* alloc_block is between its two disk writes and the counter is stale.
C5_Witness ==
    \E p \in Procs :
        /\ pc[p] = "alloc_write_second"
        /\ disk.sb.free_blocks = FreeBits(disk) + 1

\* C6: with every bit of the data region set, alloc_block fails: no
\* allocation starts, and a step taken from there leaves the disk (bitmap
\* and superblock) and both free-block counters unchanged.
C6_AllocFailsWhenFull ==
    [][\A p \in Procs :
        (pc[p] = "idle" /\ FreeBits(disk) = 0 /\ pc'[p] # "idle") =>
            /\ ~alloc_block(inner, disk).ok
            /\ alloc_block(inner, disk).inner = inner
            /\ pc'[p] # "alloc_write_first"
            /\ disk' = disk
            /\ inner'.free_blocks = inner.free_blocks
            /\ inner'.superblock.free_blocks = inner.superblock.free_blocks
      ]_vars

\* A write has returned with the data region full and a file that has
\* content in memory but was given no block.
C6_Witness ==
    /\ FreeBits(disk) = 0
    /\ \E p \in Procs : pc[p] = "done" /\ reply[p].kind = "written"
    /\ \E ino \in DOMAIN inner.files \cap Slots :
           /\ Len(inner.files[ino]) > 0
           /\ disk.inodes[ino].direct_blocks[1] = 0

\* C7: while a thread is inside a mutating handler it holds the write lock,
\* no other thread is inside one or holds the lock for reading, and every
\* step that changes the filesystem state or the disk is its own.
C7_WritersNeverInterleave ==
    [][\A p \in Procs :
        pc[p] \in MutPcs =>
            /\ lock.writer = p
            /\ lock.readers = {}
            /\ \A q \in Procs \ {p} : pc[q] \notin MutPcs
            /\ (inner' # inner \/ disk' # disk) => pc'[p] # pc[p]
      ]_vars

\* A thread is inside a mutating handler while another runs a request.
C7_Witness ==
    \E p, q \in Procs :
        /\ p # q
        /\ pc[p] \in MutPcs
        /\ pc[q] \notin {"idle", "done"}

\* C8: the disk reads of a read are made under the shared lock, so no
\* thread is at a disk read of read while another is inside a mutating
\* handler, between its disk writes.
C8_ReadHoldsSharedLock ==
    \A p, q \in Procs : ~(pc[p] \in ReadDiskPcs /\ pc[q] \in MutPcs)

\* C9: a file whose content is the BlockSize + 1 bytes written at offset 0
\* has, when the blocks were there to take, ceil(L / block_size) = 2 blocks
\* in its on-disk direct pointers, and its persisted content reads back as
\* the bytes written.
C9_WriteAllocatesCeilBlocks ==
    Quiescent =>
        \A ino \in DOMAIN inner.files \cap Slots :
            LET L == Len(inner.files[ino])
                inode == disk.inodes[ino]
                held == {i \in 1..NDirect : inode.direct_blocks[i] # 0}
                need == (L + BlockSize - 1) \div BlockSize
            IN  (/\ inner.files[ino] = Payload(BlockSize + 1)
                 /\ Cardinality(held) + FreeBits(disk) >= need)
                => /\ Cardinality(held) = need
                   /\ inode.size = L
                   /\ read_from_disk(disk, inode, BlockSize, 0, L)
                          = Ok(inner.files[ino])

\* C10: a write of n bytes at offset o to a file of size s leaves the
\* in-memory inode with size max(s, o + n), and the inode record it
\* persists has that size too.
C10_SizeIsMax ==
    [][\A p \in Procs :
        /\ (pc[p] = "idle" /\ pc'[p] \in {"alloc_write_first", "write_data"})
              => LET ino == loc'[p].ino
                 IN  inner'.inodes[ino].size
                         = Max(inner.inodes[ino].size,
                               loc'[p].offset + loc'[p].len)
        /\ (pc[p] = "write_inode" /\ loc[p].ino \in Slots)
              => disk'.inodes[loc[p].ino].size
                     = inner.inodes[loc[p].ino].size
      ]_vars

\* The file's logical byte at position pos (from 0): 0 in a hole, else the
\* byte at the same in-block position of the pointed-to block.
LogicalByte(d, inode, pos) ==
    LET b == inode.direct_blocks[(pos \div BlockSize) + 1]
    IN  IF b = 0 THEN 0 ELSE d.blocks[b][(pos % BlockSize) + 1]

\* C11: byte k of the result of a read from the on-disk inode is the file's
\* logical byte at offset + k, for every offset, length and pattern of
\* holes.
C11_ReadReturnsLogicalBytes ==
    [][\A p \in Procs :
        pc[p] = "read_blocks" =>
            /\ reply'[p].kind = "data"
            /\ \A k \in 1..Len(reply'[p].data) :
                   reply'[p].data[k]
                       = LogicalByte(disk, loc[p].disk_inode,
                                     loc[p].offset + k - 1)
      ]_vars

C13_WriteFailsWhenFull ==
    [][\A p \in Procs :
        (pc[p] = "idle" /\ pc'[p] = "done" /\ FreeBits(disk) = 0) =>
            /\ reply'[p].kind # "written"
            /\ \A ino \in DOMAIN inner.files :
                   /\ inner'.files[ino] = inner.files[ino]
                   /\ inner'.inodes[ino].size = inner.inodes[ino].size
      ]_vars

\* C14: when the write of the inode record, of the superblock or of the data
\* block fails in create or write, the handler replies with an error.
C14_IoFailureIsReported ==
    [][\A p \in Procs :
        /\ (pc[p] = "create_write_superblock"
               /\ \/ ~write_superblock(disk, inner.superblock).ok
                  \/ disk.inodes[loc[p].ino] # loc[p].disk_inode)
              => reply'[p].kind = "error"
        /\ (pc[p] = "write_data"
               /\ ~write_fs_block(disk, loc[p].disk_inode.direct_blocks[1],
                                  loc[p].data).ok)
              => reply'[p].kind = "error"
        /\ (pc[p] = "write_inode"
               /\ ~write_inode_disk(disk, loc[p].sb, loc[p].ino,
                                    loc[p].disk_inode).ok)
              => reply'[p].kind = "error"
      ]_vars


\* Positions of mkfs after build_layout has succeeded.
MkfsPlanned ==
    {"mkfs_write_superblock", "mkfs_write_inode_table", "mkfs_write_bitmap",
     "mkfs_zero_data", "mkfs_done"}

\* C15: for every block count T for which build_layout succeeds, the layout
\* is inode_table_start = 1, inode_table_blocks = max(1, T div 10),
\* free_bitmap_start = inode_table_start + inode_table_blocks,
\* free_bitmap_blocks = ceil(ceil(T/8) / block_size), data_blocks_start =
\* free_bitmap_start + free_bitmap_blocks, max_inodes = inode_table_blocks *
\* (block_size div inode size), and the regions are ordered inside the T blocks.
C15_LayoutFormula ==
    pc[1] \in MkfsPlanned =>
        LET t == loc[1].total_blocks
            l == loc[1].layout
            bytes == (t + 7) \div 8
        IN  /\ l.total_blocks = t
            /\ l.inode_table_start = 1
            /\ l.inode_table_blocks = Max(1, t \div 10)
            /\ l.free_bitmap_start = l.inode_table_start + l.inode_table_blocks
            /\ l.free_bitmap_blocks * BlockSize >= bytes
            /\ (l.free_bitmap_blocks - 1) * BlockSize < bytes
            /\ l.data_blocks_start = l.free_bitmap_start + l.free_bitmap_blocks
            /\ l.max_inodes = l.inode_table_blocks * (BlockSize \div InodeSize)
            /\ l.inode_table_start + l.inode_table_blocks <= l.free_bitmap_start
            /\ l.free_bitmap_start <= l.data_blocks_start
            /\ l.data_blocks_start <= t

\* A layout with an inode table and a bitmap of more than one block each.
C15_Witness ==
    /\ pc[1] = "mkfs_done"
    /\ loc[1].layout.inode_table_blocks > 1
    /\ loc[1].layout.free_bitmap_blocks > 1

\* C16: mkfs fails before writing to any block file whenever T < 3 or the
\* data region would be empty (data_blocks_start >= T); T = 3 fails as well,
\* and planning succeeds for every T >= 4.
C16_MkfsFailsBeforeWriting ==
    LET t == loc[1].total_blocks IN
    /\ pc[1] = "mkfs_failed" => disk = BlankFolder
    /\ t <= 3 => pc[1] \in {"mkfs_start", "mkfs_failed"} /\ disk = BlankFolder
    /\ pc[1] \in MkfsPlanned => loc[1].layout.data_blocks_start < t
    /\ t >= 4 => pc[1] # "mkfs_failed"

\* mkfs has failed on three block files.
C16_Witness ==
    /\ pc[1] = "mkfs_failed"
    /\ loc[1].total_blocks = 3

\* C17: after mkfs succeeds on T block files the superblock has total_blocks
\* = T, max_inodes >= 1, root_inode = 1, free_blocks = T - data_blocks_start,
\* free_inodes = max_inodes - 1; inode slot 1 is a directory with link count
\* 2, every other slot is free with all pointers 0; bitmap bits below
\* data_blocks_start are 1 and bits data_blocks_start .. T-1 are 0.
C17_FreshImage ==
    pc[1] = "mkfs_done" =>
        LET t == loc[1].total_blocks
            sb == disk.sb
        IN  /\ sb.total_blocks = t
            /\ sb.max_inodes >= 1
            /\ sb.root_inode = 1
            /\ sb.free_blocks = t - sb.data_blocks_start
            /\ sb.free_inodes = sb.max_inodes - 1
            /\ Len(disk.inodes) = sb.max_inodes
            /\ disk.inodes[1].id = 1
            /\ disk.inodes[1].file_type = 2
            /\ disk.inodes[1].nlink = 2
            /\ \A i \in 2..Len(disk.inodes) :
                  /\ disk.inodes[i].id = 0
                  /\ \A k \in 1..NDirect : disk.inodes[i].direct_blocks[k] = 0
                  /\ disk.inodes[i].indirect_block = 0
                  /\ disk.inodes[i].double_indirect_block = 0
            /\ \A b \in 0..(t - 1) :
                  bitmap_test(disk.bitmap, b) <=> b < sb.data_blocks_start
            /\ \A b \in sb.data_blocks_start..(t - 1) :
                  disk.blocks[b] = Zeros(BlockSize)

\* mkfs has finished on a folder with several inode slots and data blocks.
C17_Witness ==
    /\ pc[1] = "mkfs_done"
    /\ Len(disk.inodes) > 1
    /\ disk.sb.free_blocks > 1
    /\ disk = Mkfs(loc[1].total_blocks, BlockSize, InodeSize)


\* The order of the passes in run_fsck, as positions of the run.
FsckOrder ==
    <<"fsck_superblock", "fsck_inodes_basic", "fsck_blocks_global",
      "fsck_dirs", "fsck_bitmap_global", "fsck_orphan_inodes", "fsck_done">>

\* The superblock pass has reported root_inode out of range.
RootReported(report) ==
    \E k \in 1..Len(report.errors) :
        report.errors[k].msg = "Superblock: root_inode"

\* Some directory of the backend has a defect the directory pass looks for.
DirDefect(backend) ==
    \/ ~InodeAt(backend, backend.superblock.root_inode).is_dir
    \/ \E d \in 0..(Len(backend.inodes) - 1) :
          /\ InodeAt(backend, d).is_dir
          /\ \E k \in 1..Len(read_dir(backend, d)) :
                LET entry == read_dir(backend, d)[k]
                IN  \/ entry.name = ""
                    \/ entry.inode >= Len(backend.inodes)
                    \/ entry.is_dir # InodeAt(backend, entry.inode).is_dir

\* C18: run_fsck executes the six passes in the order superblock,
\* inode-basic, global-uniqueness, directory, bitmap, orphan; each pass only
\* appends findings and can only change a rollup from true to false; every
\* pass runs whatever earlier passes found; the directory pass appends nothing
\* when the superblock pass reported root_inode out of range, and otherwise
\* appends nothing only if no directory has a defect.
C18_PassesInOrder ==
    [][LET r == loc[1].report
           r2 == loc'[1].report
       IN  /\ \E k \in 1..(Len(FsckOrder) - 1) :
                 pc[1] = FsckOrder[k] /\ pc'[1] = FsckOrder[k + 1]
           /\ Len(r2.errors) >= Len(r.errors)
           /\ SubSeq(r2.errors, 1, Len(r.errors)) = r.errors
           /\ r2.blocks_ok => r.blocks_ok
           /\ r2.inodes_ok => r.inodes_ok
           /\ pc[1] = "fsck_dirs" /\ RootReported(r) => r2 = r
           /\ pc[1] = "fsck_dirs" /\ ~RootReported(r) =>
                 (r2.errors = r.errors <=> ~DirDefect(disk))]_vars

\* A finished run whose directory pass was skipped although a directory has
\* a defect, and whose later orphan pass has reported an inode.
C18_Witness ==
    /\ pc[1] = "fsck_done"
    /\ RootReported(loc[1].report)
    /\ \E d \in 1..Len(disk.dirs) :
          disk.inodes[d].is_dir /\ Len(disk.dirs[d]) > 0
             /\ disk.dirs[d][1].name = ""
    /\ \E k \in 1..Len(loc[1].report.errors) :
          loc[1].report.errors[k].msg = "huerfano"
    /\ \A k \in 1..Len(loc[1].report.errors) :
          loc[1].report.errors[k].msg \in {"Superblock: root_inode", "huerfano"}

\* C18 as stated: the directory pass appends nothing exactly when the
\* superblock pass reported root_inode out of range.
C18_DirsSilentIffRootReported ==
    [][pc[1] = "fsck_dirs" =>
          (loc'[1].report.errors = loc[1].report.errors
              <=> RootReported(loc[1].report))]_vars


\* C19: the orphan pass reports inode i, and sets inodes_ok = false, exactly
\* when i is not reachable from the root inode by following directory
\* entries; the root is never reported; inodes that only reference each other
\* in a cycle detached from the root are reported.
C19_OrphanIffUnreachable ==
    pc[1] = "fsck_done" =>
        LET n == Len(disk.inodes)
            root == disk.superblock.root_inode
            errors == loc[1].report.errors
            reported(i) ==
                \E k \in 1..Len(errors) :
                    errors[k].msg = "huerfano" /\ errors[k].a = i
            entries_of(d) ==
                IF InodeAt(disk, d).is_dir
                THEN {read_dir(disk, d)[k].inode :
                         k \in 1..Len(read_dir(disk, d))} \cap 0..(n - 1)
                ELSE {}
            reach[k \in 0..n] ==
                IF k = 0 THEN {root} \cap 0..(n - 1)
                ELSE reach[k - 1] \cup UNION {entries_of(d) : d \in reach[k - 1]}
        IN  /\ \A i \in 0..(n - 1) : reported(i) <=> i \notin reach[n]
            /\ (\E i \in 0..(n - 1) : reported(i)) => ~loc[1].report.inodes_ok


\* Some inode holds block b in a direct or an indirect pointer.
HeldByInode(backend, b) ==
    \E i \in 1..Len(backend.inodes) :
        \/ \E k \in 1..Len(backend.inodes[i].direct) :
              backend.inodes[i].direct[k] = b
        \/ backend.inodes[i].indirect1 = <<b>>
        \/ backend.inodes[i].indirect2 = <<b>>

\* C20: when the bitmap length equals num_blocks the bitmap pass records one
\* finding for every block index b < num_blocks whose bit differs from "some
\* inode holds b in a direct or indirect pointer", in both directions, ignores
\* pointers >= num_blocks, and sets blocks_ok = false if there is such a b;
\* when the lengths differ it records a single size finding, sets blocks_ok =
\* false and compares no bits; the orphan pass runs next in both cases.
C20_BitmapPass ==
    [][pc[1] = "fsck_bitmap_global" =>
          LET r == loc[1].report
              r2 == loc'[1].report
              nb == disk.superblock.num_blocks
              added == SubSeq(r2.errors, Len(r.errors) + 1, Len(r2.errors))
              differs(b) == disk.bitmap[b + 1] # HeldByInode(disk, b)
              about(b) == {k \in 1..Len(added) : added[k].a = b}
          IN  /\ pc'[1] = "fsck_orphan_inodes"
              /\ r2.inodes_ok = r.inodes_ok
              /\ IF Len(disk.bitmap) = nb
                 THEN /\ \A b \in 0..(nb - 1) :
                            IF differs(b)
                            THEN \E k \in 1..Len(added) :
                                    /\ about(b) = {k}
                                    /\ added[k].msg =
                                          IF disk.bitmap[b + 1]
                                          THEN "Bitmap marca usado"
                                          ELSE "Bitmap marca libre"
                            ELSE about(b) = {}
                      /\ \A k \in 1..Len(added) : added[k].a \in 0..(nb - 1)
                      /\ r2.blocks_ok =
                            (r.blocks_ok /\ \A b \in 0..(nb - 1) : ~differs(b))
                 ELSE /\ added = <<Finding("Bitmap tiene tamano incorrecto",
                                           Len(disk.bitmap), nb, "")>>
                      /\ ~r2.blocks_ok]_vars

\* A finished run on a bitmap of the right length that was found wrong in
\* both directions, with a pointer past the last block, followed by a
\* finding of the orphan pass.
C20_Witness ==
    /\ pc[1] = "fsck_done"
    /\ Len(disk.bitmap) = disk.superblock.num_blocks
    /\ HeldByInode(disk, disk.superblock.num_blocks)
    /\ ~loc[1].report.blocks_ok
    /\ LET errors == loc[1].report.errors
       IN  \E i, j, k \in 1..Len(errors) :
              /\ i < k /\ j < k
              /\ errors[i].msg = "Bitmap marca usado"
              /\ errors[j].msg = "Bitmap marca libre"
              /\ errors[k].msg = "huerfano"


\* C21: fsck reports a bitmap divergence for block b exactly when the bit of
\* b differs from (some inode references b, or b lies in the metadata
\* region); metadata blocks marked used and referenced by no inode produce no
\* finding.
C21_MetadataBlocksLegitimate ==
    [][pc[1] = "fsck_bitmap_global"
          /\ Len(disk.bitmap) = disk.superblock.num_blocks =>
          LET r == loc[1].report
              r2 == loc'[1].report
              added == SubSeq(r2.errors, Len(r.errors) + 1, Len(r2.errors))
              legitimate(b) ==
                  \/ HeldByInode(disk, b)
                  \/ b < disk.image.sb.data_blocks_start
          IN  \A b \in 0..(disk.superblock.num_blocks - 1) :
                 (\E k \in 1..Len(added) : added[k].a = b)
                    <=> disk.bitmap[b + 1] # legitimate(b)]_vars


\* The block numbers an inode holds in its direct and indirect pointers.
HeldBlocks(inode) ==
    {inode.direct[k] : k \in 1..Len(inode.direct)}
    \cup {inode.indirect1[k] : k \in 1..Len(inode.indirect1)}
    \cup {inode.indirect2[k] : k \in 1..Len(inode.indirect2)}

\* The number of pointers of the first n inodes of a backend.
RECURSIVE PointerCount(_, _)
PointerCount(backend, n) ==
    IF n = 0 THEN 0
    ELSE PointerCount(backend, n - 1) + Len(PointerList(backend.inodes[n]))

\* C22: the global block-uniqueness pass records one 'duplicate globally'
\* finding for every pointer whose value an earlier pointer already holds,
\* in the same inode or another one, and sets blocks_ok = false when there is
\* one; so it records a finding whenever two different inodes hold the same
\* value, and records none when all pointer values are distinct.
C22_GlobalDuplicates ==
    [][pc[1] = "fsck_blocks_global" =>
          LET r == loc[1].report
              r2 == loc'[1].report
              added == SubSeq(r2.errors, Len(r.errors) + 1, Len(r2.errors))
              n == Len(disk.inodes)
              values == UNION {HeldBlocks(disk.inodes[i]) : i \in 1..n}
              shared == \E i, j \in 1..n :
                           i # j /\ HeldBlocks(disk.inodes[i])
                                      \cap HeldBlocks(disk.inodes[j]) # {}
          IN  /\ Len(added) = PointerCount(disk, n) - Cardinality(values)
              /\ \A k \in 1..Len(added) : added[k].msg = "duplicado globalmente"
              /\ shared => Len(added) > 0
              /\ r2.blocks_ok = (r.blocks_ok /\ Len(added) = 0)
              /\ r2.inodes_ok = r.inodes_ok]_vars

\* The pass has run on a backend where one inode holds a block in a direct
\* pointer and another inode holds it in an indirect pointer.
C22_Witness ==
    /\ pc[1] = "fsck_dirs"
    /\ \E i, j \in 1..Len(disk.inodes) :
          /\ i # j
          /\ 1 \in {disk.inodes[i].direct[k] : k \in 1..Len(disk.inodes[i].direct)}
          /\ disk.inodes[j].indirect1 = <<1>>
    /\ \E k \in 1..Len(loc[1].report.errors) :
          loc[1].report.errors[k].msg = "duplicado globalmente"
    /\ ~loc[1].report.blocks_ok

\* C22 as stated: a 'duplicate globally' finding is recorded, and blocks_ok
\* set to false, if and only if some pointer value is held by two different
\* inodes.
C22_FindingIffTwoInodes ==
    [][pc[1] = "fsck_blocks_global" =>
          LET r == loc[1].report
              r2 == loc'[1].report
              n == Len(disk.inodes)
              shared == \E i, j \in 1..n :
                           i # j /\ HeldBlocks(disk.inodes[i])
                                      \cap HeldBlocks(disk.inodes[j]) # {}
          IN  /\ Len(r2.errors) > Len(r.errors) <=> shared
              /\ (r.blocks_ok /\ ~r2.blocks_ok) <=> (r.blocks_ok /\ shared)]_vars


\* C23: for every inode, if some block number occurs more than once among
\* the inode's own pointers (direct entries and single/double-indirect
\* pointers), the inode-basic pass records an intra-inode duplicate finding
\* for that inode and sets inodes_ok = false.
C23_IntraInodeDuplicates ==
    [][pc[1] = "fsck_inodes_basic" =>
          LET r == loc[1].report
              r2 == loc'[1].report
              added == SubSeq(r2.errors, Len(r.errors) + 1, Len(r2.errors))
              repeats(inode) ==
                  LET ptrs == PointerList(inode)
                  IN  \E j, k \in 1..Len(ptrs) :
                         j # k /\ ptrs[j].blk = ptrs[k].blk
          IN  \A i \in 1..Len(disk.inodes) :
                 repeats(disk.inodes[i]) =>
                    /\ \E k \in 1..Len(added) :
                          added[k].msg = "bloque duplicado" /\ added[k].a = i - 1
                    /\ ~r2.inodes_ok]_vars


\* C24: for every backend state the superblock pass records a count-mismatch
\* finding exactly when num_inodes differs from the number of inodes the
\* backend returns, and then inodes_ok is false; a block-count finding
\* exactly when num_blocks differs from the bitmap length, and then blocks_ok
\* is false; a root finding exactly when root_inode >= the number of inodes,
\* and then inodes_ok is false.
C24_SuperblockPass ==
    [][pc[1] = "fsck_superblock" =>
          LET r2 == loc'[1].report
              sb == disk.superblock
              has(msg) == \E k \in 1..Len(r2.errors) : r2.errors[k].msg = msg
          IN  /\ loc[1].report = NewReport
              /\ has("Superblock: num_inodes") <=> sb.num_inodes # Len(disk.inodes)
              /\ has("Superblock: num_inodes") => ~r2.inodes_ok
              /\ has("Superblock: num_blocks") <=> sb.num_blocks # Len(disk.bitmap)
              /\ has("Superblock: num_blocks") => ~r2.blocks_ok
              /\ has("Superblock: root_inode") <=> sb.root_inode >= Len(disk.inodes)
              /\ has("Superblock: root_inode") => ~r2.inodes_ok]_vars

\* The pass has run on a superblock whose num_inodes is one short and whose
\* root_inode is the number of inodes.
C24_Witness ==
    /\ pc[1] = "fsck_inodes_basic"
    /\ disk.superblock.num_inodes = Len(disk.inodes) - 1
    /\ disk.superblock.root_inode = Len(disk.inodes)
    /\ Len(loc[1].report.errors) = 2
    /\ ~loc[1].report.inodes_ok
    /\ loc[1].report.blocks_ok


C27_WrongMagicReported ==
    pc[1] = "fsck_done" /\ disk.image.sb.magic # QRFS_MAGIC =>
        \E k \in 1..Len(loc[1].report.errors) :
            loc[1].report.errors[k].msg = "Superblock: magic"


\* C28: mounting a folder whose block 0 has a magic different from QRFS_MAGIC
\* or a version different from QRFS_VERSION fails with an error, produces no
\* filesystem state, and writes to no block file.
C28_MountRejectsForeignBlock0 ==
    [][pc[1] = "mount" =>
          /\ disk' = disk
          /\ disk.sb.magic # QRFS_MAGIC \/ disk.sb.version # QRFS_VERSION =>
                pc'[1] = "mount_failed" /\ inner' = Unmounted]_vars

\* Mount has failed on a populated folder whose magic is right and whose
\* version is not.
C28_Witness ==
    /\ pc[1] = "mount_failed"
    /\ inner = Unmounted
    /\ disk.sb.magic = QRFS_MAGIC
    /\ disk.sb.version # QRFS_VERSION
    /\ disk.inodes[2].id = 2

\* C29: when fsck_qrfs reaches its final result, it ends with a failure
\* status exactly when it counted at least one critical error; the warnings
\* it printed do not change the status.
C29_ResultFollowsErrors ==
    /\ pc[1] = "fsckq_failed" => loc[1].errors >= 1
    /\ pc[1] = "fsckq_ok" => loc[1].errors = 0

\* A run that printed a warning and still ended with success.
C29_Witness ==
    /\ pc[1] = "fsckq_ok"
    /\ loc[1].warnings >= 1

\* C29 as stated: every run that ends with a failure status counted at
\* least one critical error, and the other way round.
C29_FailureIffCriticalError ==
    pc[1] \in {"fsckq_ok", "fsckq_failed", "fsckq_aborted", "fsckq_panicked"}
        => (pc[1] # "fsckq_ok" <=> loc[1].errors >= 1)

\* C30: with every block file readable, fsck_qrfs reaches its final result
\* whatever block 0 holds: it neither returns early nor panics on an
\* underflowing subtraction.
C30_RunsToCompletion ==
    disk.bad = {} => pc[1] \notin {"fsckq_aborted", "fsckq_panicked"}

\* C31: in every state reached from the mount of a fresh filesystem, the
\* root inode is a key of the inode map with kind Directory and a key of the
\* directory map; no rmdir removes it.
C31_RootAlwaysPresent ==
    /\ ROOT_INO \in DOMAIN inner.inodes
    /\ inner.inodes[ROOT_INO].kind = "Directory"
    /\ ROOT_INO \in DOMAIN inner.directories

\* An rmdir has succeeded: a directory made since the mount is gone again.
C31_Witness ==
    /\ pc[1] = "done"
    /\ reply[1].kind = "ok"
    /\ inner.next_ino > ROOT_INO + 1
    /\ DOMAIN inner.directories = {ROOT_INO}

\* C32: after every completed create, mkdir, rmdir or rename, mounting the
\* folder again gives every directory the entries it has in memory.
C32_DirectoriesSurviveRemount ==
    Quiescent =>
        LET again == mount_from_folder(disk)
        IN  /\ again.ok
            /\ \A dir \in DOMAIN inner.directories :
                  /\ dir \in DOMAIN again.val.directories
                  /\ again.val.directories[dir].entries
                         = inner.directories[dir].entries

\* The entries of all directories that name inode ino, as <<dir, name>>.
EntriesNaming(inr, ino) ==
    {e \in (DOMAIN inr.directories) \X Names :
        /\ e[2] \in DOMAIN inr.directories[e[1]].entries
        /\ inr.directories[e[1]].entries[e[2]] = ino}

\* The inodes reached from the root in at most n steps along entries.
RECURSIVE ReachedFromRoot(_, _)
ReachedFromRoot(inr, n) ==
    IF n = 0 THEN {ROOT_INO}
    ELSE LET reached == ReachedFromRoot(inr, n - 1)
         IN  reached \cup
             {ino \in Inos :
                 \E e \in EntriesNaming(inr, ino) : e[1] \in reached}

\* C35: every inode other than the root is named by exactly one directory
\* entry and is reached from the root along entries.
C35_TreeShaped ==
    \A ino \in DOMAIN inner.inodes \ {ROOT_INO} :
        /\ Cardinality(EntriesNaming(inner, ino)) = 1
        /\ ino \in ReachedFromRoot(inner, MaxIno)

\* C36: every directory entry names a key of the inode map, and an inode
\* has kind Directory exactly when the directory map has a node for it.
C36_EntriesResolve ==
    /\ \A dir \in DOMAIN inner.directories :
           \A n \in DOMAIN inner.directories[dir].entries :
               inner.directories[dir].entries[n] \in DOMAIN inner.inodes
    /\ \A ino \in Inos :
           (ino \in DOMAIN inner.inodes
                /\ inner.inodes[ino].kind = "Directory")
               <=> ino \in DOMAIN inner.directories

\* A directory holds a file and a directory, after an rmdir took a third
\* inode away.
C36_Witness ==
    /\ \E dir \in DOMAIN inner.directories :
           \E n, m \in DOMAIN inner.directories[dir].entries :
               /\ inner.directories[dir].entries[n]
                      \in DOMAIN inner.directories
               /\ inner.directories[dir].entries[m]
                      \notin DOMAIN inner.directories
    /\ \E ino \in 1..(inner.next_ino - 1) : ino \notin DOMAIN inner.inodes

\* What the directory operations may change of QrfsInner.
DirState(inr) == <<inr.inodes, inr.directories, inr.next_ino>>

\* C37: in every reachable state, a call of create_directory,
\* remove_directory or rename_entry that returns an error leaves the inode
\* map, the directory map and the next inode id as they were.
C37_ErrorsChangeNothing ==
    \A parent \in Parents, name \in Names :
        /\ LET r == create_directory(inner, parent, name)
           IN  r.err # "" => DirState(r.inner) = DirState(inner)
        /\ LET r == remove_directory(inner, parent, name)
           IN  r.err # "" => DirState(r.inner) = DirState(inner)
        /\ \A newparent \in Parents, newname \in Names :
               LET r == rename_entry(inner, parent, name, newparent, newname)
               IN  r.err # "" => DirState(r.inner) = DirState(inner)

\* An rmdir of a directory that holds an entry has been refused, and a
\* mkdir of a name that exists would be.
C37_Witness ==
    /\ pc[1] = "done"
    /\ reply[1] = ReplyError("ENOTEMPTY")
    /\ \E parent \in Parents, name \in Names :
           create_directory(inner, parent, name).err = "NotSupported"

\* The ids the inode map and the directory map hold.
IdsInUse(inr) == DOMAIN inr.inodes \cup DOMAIN inr.directories

\* C38: before and after every step, the next inode id is greater than
\* every id of the inode map and of the directory map, and no step lowers
\* it.
C38_NextInoAboveAll ==
    [][/\ \A ino \in IdsInUse(inner) : ino < inner.next_ino
       /\ \A ino \in IdsInUse(inner') : ino < inner'.next_ino
       /\ inner'.next_ino >= inner.next_ino]_vars

\* An id released by rmdir lies below an id handed out after it.
C38_Witness ==
    \E gone, later \in Inos :
        /\ gone < later
        /\ gone \notin IdsInUse(inner)
        /\ later \in IdsInUse(inner)

\* The on-disk inode records that are in use.
UsedRecords(d) ==
    {i \in 1..d.sb.max_inodes :
        d.inodes[i].id # 0 /\ d.inodes[i].file_type # 0}

\* C39: after completed operations, the number of on-disk inode records in
\* use plus the superblock's free_inodes is max_inodes, and the in-memory
\* free-inode counter equals the superblock's free_inodes, in memory and on
\* disk.
C39_InodeCountersAgree ==
    Quiescent =>
        /\ Cardinality(UsedRecords(disk)) + disk.sb.free_inodes
               = disk.sb.max_inodes
        /\ inner.free_inodes = inner.superblock.free_inodes
        /\ inner.free_inodes = disk.sb.free_inodes

\* A create and a write of the created file have completed, and a directory
\* made by mkdir exists.
C39_Witness ==
    /\ Quiescent
    /\ \E i \in UsedRecords(disk) \ {ROOT_INO} :
           disk.inodes[i].direct_blocks[1] # 0
    /\ DOMAIN inner.directories # {ROOT_INO}

\* C33: in every state, also between the disk writes of a write operation,
\* every non-zero block pointer of an on-disk inode record names a block
\* whose bit in the on-disk bitmap is 1.
C33_ClaimedBlocksMarkedUsed ==
    \A i \in Slots :
        \A b \in Pointers(disk.inodes[i]) \ {0} :
            bitmap_test(load_bitmap(disk, disk.sb).val, b)

\* A write is between its data block and its inode record: the block it
\* allocated is marked used on disk and no inode record claims it yet.
C33_Witness ==
    \E p \in Procs :
        /\ pc[p] = "write_inode"
        /\ loc[p].b # 0
        /\ bitmap_test(load_bitmap(disk, disk.sb).val, loc[p].b)
        /\ \A i \in Slots : loc[p].b \notin Pointers(disk.inodes[i])

\* C34: run_fsck through the on-disk backend on a folder just formatted by
\* mkfs ends with no finding and with blocks_ok and inodes_ok true.
C34_FreshImageIsClean ==
    (/\ pc[1] = "fsck_done"
     /\ disk.image = Mkfs(TotalBlocks, BlockSize, InodeSize))
        => /\ loc[1].report.errors = << >>
           /\ loc[1].report.blocks_ok
           /\ loc[1].report.inodes_ok

====
